---- MODULE Spec2Model ----
(***************************************************************************)
(* x-leverage: a collateralized asset-financing protocol.                  *)
(*                                                                         *)
(* Three on-chain programs are modelled, each as the set of its            *)
(* instruction handlers acting on the accounts it owns:                    *)
(*   lp_vault            the shared liquidity pool (share accounting)      *)
(*   liquidation_engine  the snapshot liquidation executor                 *)
(*   financing_engine    the position lifecycle and two-tier liquidation   *)
(* The financing engine's calls into the pool are disabled in the source   *)
(* ("LP vault CPI disabled"), so the three programs share no state and     *)
(* each has its own specification.                                         *)
(*                                                                         *)
(* An instruction handler is an operator from the accounts and the         *)
(* arguments to a result [err, ...accounts as the handler left them].      *)
(* The host runtime persists the accounts of an instruction only when the  *)
(* handler returns Ok; see the Commit operators.                           *)
(***************************************************************************)
EXTENDS Integers, Naturals, Sequences, FiniteSets, TLC

(***************************************************************************)
(* Bounds of the model.                                                    *)
(***************************************************************************)
MaxAmount == 2      \* largest amount / share argument given to a pool call
MaxBalance == 4     \* cap on the pool's balance and share count
MaxTicks == 4       \* number of times the slot clock advances
MaxIndex == 1       \* position indices 0..MaxIndex per owner
MaxNow == 1         \* the timestamp clock runs from 0 to MaxNow
MaxOpens == 2       \* originations that succeed in one behaviour
MaxPoolCalls == 4   \* pool instructions in one behaviour of the scenario specification

(***************************************************************************)
(* Identities.  "default" is Pubkey::default(); it can be stored in an     *)
(* account but can never sign.                                             *)
(***************************************************************************)
DefaultKey == "default"
Signers == {"admin", "alice", "bob"}
Keys == Signers \cup {DefaultKey}

(***************************************************************************)
(* State: the accounts of the three programs, the clocks, and for each     *)
(* program the outcome of its last instruction.                            *)
(***************************************************************************)
VARIABLES
    vault,          \* lp_vault: LPVaultState
    lpSupply,       \* lp_vault: supply of the LP token mint
    vaultResult,    \* lp_vault: last instruction [op, err, amount, amount2]
    poolCalls,      \* lp_vault: instructions issued so far, counted by SpecPool only
    authority,      \* liquidation_engine: LiquidationAuthority, the per-owner record
    slot,           \* liquidation_engine: Clock::get().slot
    ticks,          \* liquidation_engine: how many times the slot clock advanced
    liqResult,      \* liquidation_engine: last instruction
    config,         \* financing_engine: ProtocolConfig
    positions,      \* financing_engine: position index -> FinancingState or NoPosition
    counter,        \* financing_engine: UserPositionCounter of the owner
    custody,        \* financing_engine: balance of the vault's collateral token account
    now,            \* financing_engine: Clock::get().unix_timestamp
    opens,          \* financing_engine: how many originations have succeeded
    finResult       \* financing_engine: last instruction

vaultVars == <<vault, lpSupply, vaultResult, poolCalls>>
liqVars == <<authority, slot, ticks, liqResult>>
finVars == <<config, positions, counter, custody, now, opens, finResult>>
vars == <<vaultVars, liqVars, finVars>>

Min(a, b) == IF a <= b THEN a ELSE b
Max(a, b) == IF a >= b THEN a ELSE b

(***************************************************************************)
(* u64 / u128 arithmetic.  Values that can exceed the model checker's      *)
(* integers are little-endian sequences of decimal digits (<<>> is 0).     *)
(***************************************************************************)
RECURSIVE Digits(_)
Digits(n) == IF n = 0 THEN <<>> ELSE <<n % 10>> \o Digits(n \div 10)

RECURSIVE Trim(_)
Trim(d) == IF d = <<>> THEN <<>>
           ELSE IF d[Len(d)] = 0 THEN Trim(SubSeq(d, 1, Len(d) - 1))
           ELSE d

RECURSIVE BigMulC(_, _, _)
BigMulC(d, m, c) ==
    IF d = <<>> THEN Digits(c)
    ELSE LET t == Head(d) * m + c
         IN  <<t % 10>> \o BigMulC(Tail(d), m, t \div 10)

\* d * m for a multiplier m below 2^31 / 10
BigMul(d, m) == Trim(BigMulC(d, m, 0))

RECURSIVE BigDivC(_, _, _)
BigDivC(d, m, r) ==
    IF d = <<>> THEN <<>>
    ELSE LET x == r * 10 + d[Len(d)]
         IN  BigDivC(SubSeq(d, 1, Len(d) - 1), m, x % m) \o <<x \div m>>

\* floor(d / m) for a divisor m below 2^31 / 10
BigDiv(d, m) == Trim(BigDivC(d, m, 0))

RECURSIVE BigShift(_, _)
\* d * 10^k
BigShift(d, k) == IF d = <<>> \/ k = 0 THEN d ELSE BigShift(<<0>> \o d, k - 1)

RECURSIVE BigUnshift(_, _)
\* floor(d / 10^k)
BigUnshift(d, k) == IF d = <<>> \/ k = 0 THEN d ELSE BigUnshift(Tail(d), k - 1)

RECURSIVE BigLeqSame(_, _)
BigLeqSame(a, b) ==
    IF a = <<>> THEN TRUE
    ELSE IF a[Len(a)] < b[Len(b)] THEN TRUE
    ELSE IF a[Len(a)] > b[Len(b)] THEN FALSE
    ELSE BigLeqSame(SubSeq(a, 1, Len(a) - 1), SubSeq(b, 1, Len(b) - 1))

\* a <= b, both trimmed
BigLeq(a, b) == IF Len(a) # Len(b) THEN Len(a) < Len(b) ELSE BigLeqSame(a, b)

RECURSIVE BigToNat(_)
BigToNat(d) == IF d = <<>> THEN 0 ELSE Head(d) + 10 * BigToNat(Tail(d))

\* u64::MAX = 18446744073709551615
U64Max == <<5,1,6,1,5,5,9,0,7,3,7,0,4,4,7,6,4,4,8,1>>

\* the largest value kept as a plain integer: i32::MAX of the model checker
NatMax == <<7,4,6,3,8,4,7,4,1,2>>

FitsU64(d) == BigLeq(d, U64Max)
FitsNat(d) == BigLeq(d, NatMax)

NatLimit == BigToNat(NatMax)

\* floor(a * m / d) with the product taken in u128 and the quotient brought
\* back to u64 by try_into: ok says the quotient fits u64.  A quotient beyond
\* the plain integers is reported as NatLimit; the bounds of every
\* specification keep such a value out of the state.
MulDivU128(a, m, d) ==
    IF m = 0 \/ ((a \div d) + 1 <= NatLimit \div (m + 1) /\ a % d <= NatLimit \div m)
    THEN [ok |-> TRUE, v |-> (a \div d) * m + (((a % d) * m) \div d)]
    ELSE LET q == BigDiv(BigMul(Digits(a), m), d)
         IN  [ok |-> FitsU64(q), v |-> IF FitsNat(q) THEN BigToNat(q) ELSE NatLimit]

(***************************************************************************)
(* lp_vault                                                                *)
(***************************************************************************)
BASE_SHARE_PRICE == 1000000

share_price(v) ==
    IF v.total_shares = 0 THEN BASE_SHARE_PRICE
    ELSE v.vault_usdc_balance \div v.total_shares

\* Ok(amount); the caller has checked total_shares > 0 (NoShares otherwise)
redeem_amount(v, shares) == MulDivU128(v.vault_usdc_balance, shares, v.total_shares).v

\* variant: the stored utilization is not recomputed
update_utilization_stale(v) == v

update_utilization(v) ==
    [v EXCEPT !.utilization =
        IF v.vault_usdc_balance = 0 THEN 0
        ELSE MulDivU128(v.locked_for_financing, 10000, v.vault_usdc_balance).v]

assert_authority(v, key) == key = v.authority

VaultRes(err, v, lp) == [err |-> err, vault |-> v, lp |-> lp]

\* variant: every deposit mints as many shares as tokens come in
deposit_usdc_one_for_one(v, lp, amount, funded) ==
    IF v.paused THEN VaultRes("VaultPaused", v, lp)
    ELSE IF ~(amount > 0) THEN VaultRes("ZeroAmount", v, lp)
    ELSE IF ~funded THEN VaultRes("InsufficientFunds", v, lp)
    ELSE VaultRes("Ok",
           update_utilization(
             [v EXCEPT !.total_shares = v.total_shares + amount,
                       !.vault_usdc_balance = v.vault_usdc_balance + amount]),
           lp + amount)

\* funded: the user's token account holds `amount`
deposit_usdc_h(v, lp, amount, funded) ==
    IF v.paused THEN VaultRes("VaultPaused", v, lp)
    ELSE IF ~(amount > 0) THEN VaultRes("ZeroAmount", v, lp)
    ELSE
      LET pre_shares == v.total_shares
          pre_price == share_price(v)
          minted == IF v.total_shares = 0 THEN [ok |-> TRUE, v |-> amount]
                    ELSE MulDivU128(amount, v.total_shares, Max(v.vault_usdc_balance, 1))
          shares == minted.v
          v1 == [v EXCEPT !.total_shares = v.total_shares + shares,
                          !.vault_usdc_balance = v.vault_usdc_balance + amount]
      IN  IF ~minted.ok THEN VaultRes("MathOverflow", v, lp)
          ELSE IF ~funded THEN VaultRes("InsufficientFunds", v, lp)
          ELSE IF pre_shares > 0 /\ ~(share_price(v1) >= pre_price)
               THEN VaultRes("SharePriceRegression", v1, lp + shares)
          ELSE VaultRes("Ok", update_utilization(v1), lp + shares)

withdraw_usdc_h(v, lp, shares) ==
    IF v.paused THEN VaultRes("VaultPaused", v, lp)
    ELSE IF ~(shares > 0) THEN VaultRes("ZeroAmount", v, lp)
    ELSE IF ~(shares <= v.total_shares) THEN VaultRes("InsufficientShares", v, lp)
    ELSE
      LET amount == redeem_amount(v, shares)
          available == Max(v.vault_usdc_balance - v.locked_for_financing, 0)
          v1 == [v EXCEPT !.total_shares = v.total_shares - shares,
                          !.vault_usdc_balance = Max(v.vault_usdc_balance - amount, 0)]
      IN  IF ~(amount <= available) THEN VaultRes("InsufficientLiquidity", v, lp)
          ELSE IF ~(shares <= lp) THEN VaultRes("InsufficientFunds", v, lp)
          ELSE IF ~(share_price(v1) > 0)
               THEN VaultRes("SharePriceRegression", v1, lp - shares)
          ELSE VaultRes("Ok", update_utilization(v1), lp - shares)

mint_shares_h(v, lp, caller, amount) ==
    IF ~assert_authority(v, caller) THEN VaultRes("Unauthorized", v, lp)
    ELSE VaultRes("Ok", [v EXCEPT !.total_shares = v.total_shares + amount], lp)

burn_shares_h(v, lp, caller, amount) ==
    IF ~assert_authority(v, caller) THEN VaultRes("Unauthorized", v, lp)
    ELSE IF ~(v.total_shares >= amount) THEN VaultRes("InsufficientShares", v, lp)
    ELSE VaultRes("Ok", [v EXCEPT !.total_shares = v.total_shares - amount], lp)

\* variant: the amount leaves the balance but is not recorded as locked
allocate_financing_no_lock(v, lp, amount) ==
    IF v.paused THEN VaultRes("VaultPaused", v, lp)
    ELSE IF ~(amount <= v.vault_usdc_balance) THEN VaultRes("InsufficientLiquidity", v, lp)
    ELSE VaultRes("Ok",
           update_utilization([v EXCEPT !.vault_usdc_balance = v.vault_usdc_balance - amount]),
           lp)

allocate_financing_h(v, lp, amount) ==
    IF v.paused THEN VaultRes("VaultPaused", v, lp)
    ELSE IF ~(amount <= v.vault_usdc_balance) THEN VaultRes("InsufficientLiquidity", v, lp)
    ELSE
      LET v1 == update_utilization(
                  [v EXCEPT !.vault_usdc_balance = Max(v.vault_usdc_balance - amount, 0),
                            !.locked_for_financing = v.locked_for_financing + amount])
      IN  IF ~(v1.vault_usdc_balance >= v1.locked_for_financing)
          THEN VaultRes("UnderCollateralized", v1, lp)
          ELSE VaultRes("Ok", v1, lp)

\* variant: the whole amount is taken off the lock
release_financing_unclamped(v, lp, amount, funded) ==
    IF ~funded THEN VaultRes("InsufficientFunds", v, lp)
    ELSE VaultRes("Ok",
           update_utilization(
             [v EXCEPT !.vault_usdc_balance = v.vault_usdc_balance + amount,
                       !.locked_for_financing = v.locked_for_financing - amount]),
           lp)

\* funded: the user's token account holds `amount`
release_financing_h(v, lp, amount, funded) ==
    LET unlock_amount == Min(amount, v.locked_for_financing)
    IN  IF ~funded THEN VaultRes("InsufficientFunds", v, lp)
        ELSE VaultRes("Ok",
               update_utilization(
                 [v EXCEPT !.vault_usdc_balance = v.vault_usdc_balance + amount,
                           !.locked_for_financing =
                               Max(v.locked_for_financing - unlock_amount, 0)]),
               lp)

write_off_bad_debt_h(v, lp, caller, financing_amount, bad_debt) ==
    IF ~assert_authority(v, caller) THEN VaultRes("Unauthorized", v, lp)
    ELSE
      LET unlock_amount == Min(financing_amount, v.locked_for_financing)
      IN  VaultRes("Ok",
            update_utilization(
              [v EXCEPT !.locked_for_financing =
                            Max(v.locked_for_financing - unlock_amount, 0),
                        !.vault_usdc_balance = Max(v.vault_usdc_balance - bad_debt, 0)]),
            lp)

pause_vault_h(v, lp, caller) ==
    IF ~assert_authority(v, caller) THEN VaultRes("Unauthorized", v, lp)
    ELSE IF v.paused THEN VaultRes("AlreadyPaused", v, lp)
    ELSE VaultRes("Ok", [v EXCEPT !.paused = TRUE], lp)

unpause_vault_h(v, lp, caller) ==
    IF ~assert_authority(v, caller) THEN VaultRes("Unauthorized", v, lp)
    ELSE IF ~v.paused THEN VaultRes("NotPaused", v, lp)
    ELSE VaultRes("Ok", [v EXCEPT !.paused = FALSE], lp)

\* The runtime keeps an instruction's account writes only if it returned Ok.
CommitVault(res) ==
    /\ vault' = IF res.err = "Ok" THEN res.vault ELSE vault
    /\ lpSupply' = IF res.err = "Ok" THEN res.lp ELSE lpSupply

VaultCall(op, res, amount, amount2) ==
    /\ CommitVault(res)
    /\ vaultResult' = [op |-> op, err |-> res.err, amount |-> amount, amount2 |-> amount2]
    /\ UNCHANGED <<poolCalls, liqVars, finVars>>

\* the same, as one of the MaxPoolCalls instructions of a scenario; the result
\* also names the signer
PoolCall(op, res, caller, amount, amount2) ==
    /\ poolCalls < MaxPoolCalls
    /\ CommitVault(res)
    /\ vaultResult' = [op |-> op, err |-> res.err, amount |-> amount, amount2 |-> amount2,
                       caller |-> caller]
    /\ poolCalls' = poolCalls + 1
    /\ UNCHANGED <<liqVars, finVars>>

Amounts == 0..MaxAmount

\* the signers that try the authority-gated pool instructions
VaultCallers == {"admin", "alice"}

\* The accounts as their initialize instructions leave them.
VaultInitial ==
    [total_shares |-> 0, vault_usdc_balance |-> 0, locked_for_financing |-> 0,
     utilization |-> 0, authority |-> "admin", paused |-> FALSE]

VaultResultInitial == [op |-> "initialize_vault", err |-> "Ok", amount |-> 0, amount2 |-> 0]

\* The liquidation record is created outside the program with its delegate set.
AuthorityInitial(d) ==
    [delegated_liquidator |-> d, frozen_snapshot_slot |-> 0, frozen_price |-> 0,
     executed |-> FALSE, last_fee_accrued |-> 0, last_user_return |-> 0]

LiqResultInitial ==
    [op |-> "init", err |-> "Ok", caller |-> DefaultKey, price |-> 0,
     ltv |-> 0, threshold |-> 0, slippage |-> 0, age |-> -1]

NoPosition == [position_status |-> "None"]
Indices == 0..MaxIndex

ConfigInitial == [admin_authority |-> "admin", protocol_paused |-> FALSE]
PositionsInitial == [i \in Indices |-> NoPosition]
CounterInitial == [user |-> DefaultKey, open_positions |-> 0, total_positions |-> 0]
NoInput == [kind |-> "none"]
FinResultInitial ==
    [op |-> "none", err |-> "Ok", caller |-> "admin",
     index |-> 0, ltv |-> -1, arg |-> 0, inp |-> NoInput, closed |-> NoPosition]

\* initialize_vault; the other programs' accounts stay as created
InitVault ==
    /\ vault = VaultInitial
    /\ lpSupply = 0
    /\ vaultResult = VaultResultInitial
    /\ poolCalls = 0
    /\ authority = AuthorityInitial(DefaultKey)
    /\ slot = 1
    /\ ticks = 0
    /\ liqResult = LiqResultInitial
    /\ config = ConfigInitial
    /\ positions = PositionsInitial
    /\ counter = CounterInitial
    /\ custody = 0
    /\ now = 0
    /\ opens = 0
    /\ finResult = FinResultInitial

deposit_usdc ==
    \E amount \in Amounts, funded \in BOOLEAN :
        LET res == deposit_usdc_h(vault, lpSupply, amount, funded)
        IN  /\ vault.vault_usdc_balance + amount <= MaxBalance
            /\ res.vault.total_shares <= MaxBalance
            /\ res.lp <= MaxBalance
            /\ VaultCall("deposit_usdc", res, amount, 0)

withdraw_usdc ==
    \E shares \in Amounts :
        VaultCall("withdraw_usdc", withdraw_usdc_h(vault, lpSupply, shares), shares, 0)

mint_shares ==
    \E caller \in VaultCallers, amount \in Amounts :
        /\ vault.total_shares + amount <= MaxBalance
        /\ VaultCall("mint_shares", mint_shares_h(vault, lpSupply, caller, amount), amount, 0)

burn_shares ==
    \E caller \in VaultCallers, amount \in Amounts :
        VaultCall("burn_shares", burn_shares_h(vault, lpSupply, caller, amount), amount, 0)

allocate_financing ==
    \E amount \in Amounts :
        VaultCall("allocate_financing", allocate_financing_h(vault, lpSupply, amount), amount, 0)

release_financing ==
    \E amount \in Amounts, funded \in BOOLEAN :
        /\ vault.vault_usdc_balance + amount <= MaxBalance
        /\ VaultCall("release_financing",
                     release_financing_h(vault, lpSupply, amount, funded), amount, 0)

write_off_bad_debt ==
    \E caller \in VaultCallers, financing_amount \in Amounts, bad_debt \in Amounts :
        VaultCall("write_off_bad_debt",
                  write_off_bad_debt_h(vault, lpSupply, caller, financing_amount, bad_debt),
                  financing_amount, bad_debt)

pause_vault ==
    \E caller \in VaultCallers :
        VaultCall("pause_vault", pause_vault_h(vault, lpSupply, caller), 0, 0)

unpause_vault ==
    \E caller \in VaultCallers :
        VaultCall("unpause_vault", unpause_vault_h(vault, lpSupply, caller), 0, 0)

NextVault ==
    \/ deposit_usdc
    \/ withdraw_usdc
    \/ mint_shares
    \/ burn_shares
    \/ allocate_financing
    \/ release_financing
    \/ write_off_bad_debt
    \/ pause_vault
    \/ unpause_vault

SpecVault == InitVault /\ [][NextVault]_vars

(***************************************************************************)
(* The pool at the scale of its tests: a few instructions with amounts in  *)
(* token units, starting from the pool initialize_vault creates.           *)
(***************************************************************************)
DepositInputs == {0, 1000, 3000, 1000000}
WithdrawInputs == {0, 500, 4000}
AllocateInputs == {500, 1000, 1000001}
ReleaseInputs == {250, 500, 999000}
WriteOffInputs == {<<200, 300>>, <<800, 400>>}
\* the signer of the instructions that anyone may send
PoolUser == "alice"

InitPool ==
    /\ vault = VaultInitial
    /\ lpSupply = 0
    /\ vaultResult = VaultResultInitial
    /\ poolCalls = 0
    /\ authority = AuthorityInitial(DefaultKey)
    /\ slot = 1
    /\ ticks = 0
    /\ liqResult = LiqResultInitial
    /\ config = ConfigInitial
    /\ positions = PositionsInitial
    /\ counter = CounterInitial
    /\ custody = 0
    /\ now = 0
    /\ opens = 0
    /\ finResult = FinResultInitial

pool_deposit_usdc ==
    \E amount \in DepositInputs, funded \in BOOLEAN :
        PoolCall("deposit_usdc", deposit_usdc_h(vault, lpSupply, amount, funded),
                 PoolUser, amount, 0)

pool_withdraw_usdc ==
    \E shares \in WithdrawInputs :
        PoolCall("withdraw_usdc", withdraw_usdc_h(vault, lpSupply, shares),
                 PoolUser, shares, 0)

pool_allocate_financing ==
    \E amount \in AllocateInputs :
        PoolCall("allocate_financing", allocate_financing_h(vault, lpSupply, amount),
                 PoolUser, amount, 0)

pool_release_financing ==
    \E amount \in ReleaseInputs, funded \in BOOLEAN :
        PoolCall("release_financing",
                 release_financing_h(vault, lpSupply, amount, funded),
                 PoolUser, amount, 0)

pool_write_off_bad_debt ==
    \E caller \in VaultCallers, a \in WriteOffInputs :
        PoolCall("write_off_bad_debt",
                 write_off_bad_debt_h(vault, lpSupply, caller, a[1], a[2]),
                 caller, a[1], a[2])

NextPool ==
    \/ pool_deposit_usdc
    \/ pool_withdraw_usdc
    \/ pool_allocate_financing
    \/ pool_release_financing
    \/ pool_write_off_bad_debt

SpecPool == InitPool /\ [][NextPool]_vars

(***************************************************************************)
(* liquidation_engine                                                      *)
(***************************************************************************)
MAX_SNAPSHOT_AGE_SLOTS == 100
MAX_SLIPPAGE_BPS == 200
LIQUIDATION_FEE_PCT == 3

LiqRes(err, a) == [err |-> err, authority |-> a]

\* variant: a snapshot of exactly the maximum age still blocks re-freezing
freeze_oracle_snapshot_strict(a, now_slot, price) ==
    IF a.frozen_snapshot_slot > 0
       /\ ~(Max(now_slot - a.frozen_snapshot_slot, 0) > MAX_SNAPSHOT_AGE_SLOTS)
    THEN LiqRes("DoubleLiquidation", a)
    ELSE LiqRes("Ok", [a EXCEPT !.frozen_snapshot_slot = now_slot,
                                !.frozen_price = price])

freeze_oracle_snapshot_h(a, now_slot, price) ==
    IF a.frozen_snapshot_slot > 0
       /\ ~(Max(now_slot - a.frozen_snapshot_slot, 0) >= MAX_SNAPSHOT_AGE_SLOTS)
    THEN LiqRes("DoubleLiquidation", a)
    ELSE LiqRes("Ok", [a EXCEPT !.frozen_snapshot_slot = now_slot,
                                !.frozen_price = price])

\* variant: the signer is not compared with the registered delegate
execute_liquidation_anyone(a, caller, ltv, liquidation_threshold, slippage_bps) ==
    IF ~(a.delegated_liquidator # DefaultKey) THEN LiqRes("InvalidLiquidator", a)
    ELSE IF ~(a.frozen_snapshot_slot > 0) THEN LiqRes("SnapshotMissing", a)
    ELSE IF ~(ltv >= liquidation_threshold) THEN LiqRes("ThresholdNotBreached", a)
    ELSE IF ~(slippage_bps <= MAX_SLIPPAGE_BPS) THEN LiqRes("SlippageTooHigh", a)
    ELSE LiqRes("Ok", [a EXCEPT !.executed = TRUE])

\* has_one = delegated_liquidator is checked on the accounts before the handler runs
execute_liquidation_h(a, caller, ltv, liquidation_threshold, slippage_bps) ==
    IF ~(a.delegated_liquidator = caller) THEN LiqRes("Unauthorized", a)
    ELSE IF ~(a.delegated_liquidator # DefaultKey) THEN LiqRes("InvalidLiquidator", a)
    ELSE IF ~(a.delegated_liquidator = caller) THEN LiqRes("Unauthorized", a)
    ELSE IF ~(a.frozen_snapshot_slot > 0) THEN LiqRes("SnapshotMissing", a)
    ELSE IF ~(ltv >= liquidation_threshold) THEN LiqRes("ThresholdNotBreached", a)
    ELSE IF ~(slippage_bps <= MAX_SLIPPAGE_BPS) THEN LiqRes("SlippageTooHigh", a)
    ELSE LiqRes("Ok", [a EXCEPT !.executed = TRUE])

\* variant: the proceeds are recorded but the snapshot is left in place
distribute_liquidation_proceeds_no_reset(a, total_proceeds) ==
    LET fee == (total_proceeds * LIQUIDATION_FEE_PCT) \div 100
    IN  LiqRes("Ok", [a EXCEPT !.last_fee_accrued = fee,
                               !.last_user_return = total_proceeds - fee])

distribute_liquidation_proceeds_h(a, total_proceeds) ==
    LET fee == (total_proceeds * LIQUIDATION_FEE_PCT) \div 100
        user_amount == total_proceeds - fee
    IN  IF user_amount < 0 THEN LiqRes("MathOverflow", a)
        ELSE LiqRes("Ok", [a EXCEPT !.last_fee_accrued = fee,
                                    !.last_user_return = user_amount,
                                    !.frozen_snapshot_slot = 0,
                                    !.frozen_price = 0,
                                    !.executed = FALSE])

CommitLiq(res) == authority' = IF res.err = "Ok" THEN res.authority ELSE authority

\* age of the snapshot the record holds, -1 when it holds none
SnapshotAge(a, now_slot) ==
    IF a.frozen_snapshot_slot > 0 THEN Max(now_slot - a.frozen_snapshot_slot, 0) ELSE -1

LiqCall(op, res, caller, price, ltv, threshold, slippage) ==
    /\ CommitLiq(res)
    /\ liqResult' = [op |-> op, err |-> res.err, caller |-> caller, price |-> price,
                     ltv |-> ltv, threshold |-> threshold, slippage |-> slippage,
                     age |-> SnapshotAge(authority, slot)]
    /\ UNCHANGED <<slot, ticks, vaultVars, finVars>>

Liquidators == {"alice", "bob"}
PriceInputs == {155, 200}
LtvInputs == {0, 8999, 9000, 10000}
ThresholdInputs == {9000}
SlippageInputs == {0, 200, 201}
ProceedsInputs == {0, 99, 10000}
SlotSteps == {1, 99}

\* The record exists with a registered delegate or none; the clock of a running
\* cluster is past slot 0.
InitLiq ==
    /\ authority \in {AuthorityInitial(d) : d \in {DefaultKey, "bob"}}
    /\ slot = 1
    /\ ticks = 0
    /\ liqResult = LiqResultInitial
    /\ vault = VaultInitial
    /\ lpSupply = 0
    /\ vaultResult = VaultResultInitial
    /\ poolCalls = 0
    /\ config = ConfigInitial
    /\ positions = PositionsInitial
    /\ counter = CounterInitial
    /\ custody = 0
    /\ now = 0
    /\ opens = 0
    /\ finResult = FinResultInitial

AdvanceSlot ==
    \E d \in SlotSteps :
        /\ ticks < MaxTicks
        /\ slot' = slot + d
        /\ ticks' = ticks + 1
        /\ liqResult' = [LiqResultInitial EXCEPT !.op = "advance_slot"]
        /\ UNCHANGED <<authority, vaultVars, finVars>>

freeze_oracle_snapshot ==
    \E price \in PriceInputs :
        LiqCall("freeze_oracle_snapshot", freeze_oracle_snapshot_h(authority, slot, price),
                DefaultKey, price, 0, 0, 0)

execute_liquidation ==
    \E caller \in Liquidators, ltv \in LtvInputs, threshold \in ThresholdInputs,
       slippage \in SlippageInputs :
        LiqCall("execute_liquidation",
                execute_liquidation_h(authority, caller, ltv, threshold, slippage),
                caller, 0, ltv, threshold, slippage)

distribute_liquidation_proceeds ==
    \E total_proceeds \in ProceedsInputs :
        LiqCall("distribute_liquidation_proceeds",
                distribute_liquidation_proceeds_h(authority, total_proceeds),
                DefaultKey, total_proceeds, 0, 0, 0)

NextLiq ==
    \/ AdvanceSlot
    \/ freeze_oracle_snapshot
    \/ execute_liquidation
    \/ distribute_liquidation_proceeds

SpecLiq == InitLiq /\ [][NextLiq]_vars

(***************************************************************************)
(* financing_engine                                                        *)
(*                                                                         *)
(* One owner ("alice") opens positions; every signer may call the other    *)
(* instructions.  A position account that an instruction closes            *)
(* (close = ...) no longer exists afterwards and its index can be          *)
(* initialised again.                                                      *)
(***************************************************************************)
PERMISSIONLESS_LIQ_THRESHOLD == 7300
PROTOCOL_LIQ_THRESHOLD == 7500
EXTERNAL_LIQUIDATOR_BONUS_BPS == 500
FORCED_LIQ_FEE_BPS == 500
MAX_EXTERNAL_LIQ_PERCENTAGE == 50
MIN_COLLATERAL_USD == 100000000
MIN_FINANCING_AMOUNT == 50000000
MAX_POSITIONS == 250
EARLY_CLOSURE_FEE_BPS == 50
BASIS_POINTS == 10000
MAX_LTV_CAP == 8500
LIQUIDATION_THRESHOLD_CAP == 9000
MIN_LIQUIDATION_BUFFER == 500

\* mock oracle table of mock_swap_usdc_to_asset / mock_sell_asset_to_usdc:
\* price = div * 10^shift (USD, 8 decimals), decimals of the asset
MockAssets ==
    [SOL |-> [div |-> 150, shift |-> 8, decimals |-> 9],
     ETH |-> [div |-> 3000, shift |-> 8, decimals |-> 9],
     BTC |-> [div |-> 1, shift |-> 13, decimals |-> 8],
     XNT |-> [div |-> 1, shift |-> 8, decimals |-> 9]]
KnownMints == DOMAIN MockAssets

\* u64 checked_mul(a, m) / d for plain integers a, m, d: "overflow" or the quotient
CheckedMulDiv(a, m, d) ==
    IF m = 0 \/ ((a \div d) + 1 <= NatLimit \div (m + 1) /\ a % d <= NatLimit \div m)
    THEN \* a * m / d = (a / d) * m + ((a % d) * m) / d, all within plain integers
         [ok |-> TRUE, v |-> (a \div d) * m + (((a % d) * m) \div d)]
    ELSE LET p == BigMul(Digits(a), m)
         IN  IF ~FitsU64(p) THEN [ok |-> FALSE, v |-> 0]
             ELSE [ok |-> TRUE, v |-> BigToNat(BigDiv(p, d))]

\* compute_ltv: Err(ZeroCollateral) for no collateral value, else
\* obligations * 10_000 / collateral_value
compute_ltv(obligations, collateral_value) ==
    IF ~(collateral_value > 0) THEN [err |-> "ZeroCollateral", v |-> 0]
    ELSE IF collateral_value % BASIS_POINTS = 0
         THEN \* the divisor is a multiple of 10_000: the quotient is the same
              [err |-> "Ok", v |-> obligations \div (collateral_value \div BASIS_POINTS)]
    ELSE LET p == BigShift(Digits(obligations), 4)
         IN  IF ~FitsU64(p) THEN [err |-> "MathOverflow", v |-> 0]
             ELSE [err |-> "Ok", v |-> BigToNat(BigDiv(p, collateral_value))]

calculate_position_value_for_ltv(state) == state.collateral_usd_value

\* the LTV the handlers compute for a stored position
PositionLtv(state) ==
    compute_ltv(state.deferred_payment_amount, calculate_position_value_for_ltv(state))

\* mock_swap_usdc_to_asset: vault_funded says the vault's financed-asset account
\* holds the purchased amount
mock_swap_usdc_to_asset(usdc_amount, financed_mint, vault_funded) ==
    IF financed_mint \notin KnownMints THEN "InvalidOracleSource"
    ELSE LET a == BigMul(Digits(usdc_amount), 100)
             b == BigShift(a, MockAssets[financed_mint].decimals)
         IN  IF ~FitsU64(a) \/ ~FitsU64(b) THEN "MathOverflow"
             ELSE IF ~vault_funded THEN "InsufficientVaultBalance"
             ELSE "Ok"

\* mock_sell_asset_to_usdc: only the mint lookup can fail
mock_sell_asset_to_usdc(asset_mint) ==
    IF asset_mint \notin KnownMints THEN "InvalidOracleSource" ELSE "Ok"

FinRes(err, st, cnt, cust) == [err |-> err, state |-> st, counter |-> cnt, custody |-> cust]

\* an oracle source check that accepts every list
HasDefaultIgnored(sources) == FALSE

RECURSIVE HasDefault(_)
HasDefault(sources) ==
    IF sources = <<>> THEN FALSE
    ELSE Head(sources) = DefaultKey \/ HasDefault(Tail(sources))

Contains(sources, key) == \E k \in 1..Len(sources) : sources[k] = key

\* the LTV parameter checks of initialize_financing without the buffer check
LtvChecksNoBuffer(initial_ltv, max_ltv, liquidation_threshold) ==
    IF ~(initial_ltv > 0 /\ initial_ltv <= 10000) THEN "InvalidLtv"
    ELSE IF ~(max_ltv > 0 /\ max_ltv <= 10000) THEN "InvalidLtv"
    ELSE IF ~(liquidation_threshold > 0 /\ liquidation_threshold <= 10000) THEN "InvalidLtv"
    ELSE IF ~(initial_ltv <= max_ltv) THEN "InvalidLtvOrdering"
    ELSE IF ~(max_ltv <= liquidation_threshold) THEN "InvalidLtvOrdering"
    ELSE IF ~(max_ltv <= MAX_LTV_CAP) THEN "LtvTooHigh"
    ELSE IF ~(liquidation_threshold <= LIQUIDATION_THRESHOLD_CAP) THEN "LtvTooHigh"
    ELSE "Ok"

\* the LTV parameter checks of initialize_financing, in the handler's order
\* (max_ltv + 500 cannot saturate for a max_ltv that passed the range check)
LtvChecks(initial_ltv, max_ltv, liquidation_threshold) ==
    IF ~(initial_ltv > 0 /\ initial_ltv <= 10000) THEN "InvalidLtv"
    ELSE IF ~(max_ltv > 0 /\ max_ltv <= 10000) THEN "InvalidLtv"
    ELSE IF ~(liquidation_threshold > 0 /\ liquidation_threshold <= 10000) THEN "InvalidLtv"
    ELSE IF ~(initial_ltv <= max_ltv) THEN "InvalidLtvOrdering"
    ELSE IF ~(max_ltv <= liquidation_threshold) THEN "InvalidLtvOrdering"
    ELSE IF ~(max_ltv <= MAX_LTV_CAP) THEN "LtvTooHigh"
    ELSE IF ~(liquidation_threshold <= LIQUIDATION_THRESHOLD_CAP) THEN "LtvTooHigh"
    ELSE IF ~(liquidation_threshold >= max_ltv + MIN_LIQUIDATION_BUFFER)
         THEN "InsufficientLiquidationBuffer"
    ELSE "Ok"

\* a position limit that is never reached
TooManyPositionsNever(cnt) == FALSE

\* the position limit of initialize_financing, checked before the increment
TooManyPositions(cnt) == ~(cnt.open_positions < MAX_POSITIONS)

\* initialize_financing.  old is the account at the position's address (the
\* init constraint needs it not to exist); a is the argument record.
initialize_financing_h(cfg, old, cnt, cust, user, position_index, a) ==
    LET markup == CheckedMulDiv(a.financing_usdc_amount, a.markup_bps, 10000)
        markup_amount == markup.v
        deferred_payment == a.financing_usdc_amount + markup_amount
        cnt1 == IF cnt.open_positions = 0 THEN [cnt EXCEPT !.user = user] ELSE cnt
        cnt2 == [cnt1 EXCEPT !.open_positions = cnt1.open_positions + 1]
        ltvs == LtvChecks(a.initial_ltv, a.max_ltv, a.liquidation_threshold)
        swap == mock_swap_usdc_to_asset(a.financing_usdc_amount, a.financed_mint,
                                        a.vault_funded)
        state == [user_pubkey |-> user,
                  position_index |-> position_index,
                  collateral_mint |-> a.collateral_mint,
                  collateral_amount |-> a.collateral_amount,
                  collateral_usd_value |-> a.collateral_usd_value,
                  financed_mint |-> a.financed_mint,
                  financed_purchase_price_usdc |-> a.financing_usdc_amount,
                  financed_usd_value |-> a.financing_usdc_amount,
                  deferred_payment_amount |-> deferred_payment,
                  markup_fees |-> markup_amount,
                  initial_ltv |-> a.initial_ltv,
                  max_ltv |-> a.max_ltv,
                  liquidation_threshold |-> a.liquidation_threshold,
                  term_start |-> a.term_start,
                  term_end |-> a.term_end,
                  oracle_sources |-> a.oracle_sources,
                  position_status |-> "Active"]
        cnt3 == IF position_index >= cnt2.total_positions
                THEN [cnt2 EXCEPT !.total_positions = position_index + 1]
                ELSE cnt2
        cust1 == cust + a.collateral_amount
    IN  IF old # NoPosition THEN FinRes("AccountAlreadyInUse", old, cnt, cust)
        ELSE IF cfg.protocol_paused THEN FinRes("ProtocolPaused", old, cnt, cust)
        ELSE IF ~markup.ok THEN FinRes("MathOverflow", old, cnt, cust)
        ELSE IF ~(a.collateral_amount > 0) THEN FinRes("ZeroCollateral", old, cnt, cust)
        ELSE IF ~(a.collateral_usd_value >= MIN_COLLATERAL_USD)
             THEN FinRes("PositionTooSmall", old, cnt, cust)
        ELSE IF ~(a.financing_usdc_amount >= MIN_FINANCING_AMOUNT)
             THEN FinRes("PositionTooSmall", old, cnt, cust)
        ELSE IF ~(a.term_end > a.term_start) THEN FinRes("InvalidTerm", old, cnt, cust)
        ELSE IF a.oracle_sources = <<>> THEN FinRes("NoOracleSources", old, cnt, cust)
        ELSE IF ~(Len(a.oracle_sources) <= 3)
             THEN FinRes("TooManyOracleSources", old, cnt, cust)
        ELSE IF HasDefault(a.oracle_sources)
             THEN FinRes("InvalidOracleSource", old, cnt, cust)
        ELSE IF ltvs # "Ok" THEN FinRes(ltvs, old, cnt, cust)
        ELSE IF TooManyPositions(cnt1)
             THEN FinRes("TooManyPositions", old, cnt1, cust)
        ELSE IF ~a.user_funded THEN FinRes("InsufficientFunds", old, cnt2, cust)
        ELSE IF swap # "Ok" THEN FinRes(swap, old, cnt2, cust1)
        ELSE IF ~(a.collateral_usd_value >= markup_amount)
             THEN FinRes("NegativeEquity", state, cnt3, cust1)
        ELSE FinRes("Ok", state, cnt3, cust1)

\* update_ltv that takes a value from any signer
update_ltv_anyone(cfg, old, cnt, cust, caller, collateral_usd_value) ==
    IF old = NoPosition THEN FinRes("AccountNotInitialized", old, cnt, cust)
    ELSE IF ~(collateral_usd_value > 0) THEN FinRes("ZeroCollateral", old, cnt, cust)
    ELSE
      LET state == [old EXCEPT !.collateral_usd_value = collateral_usd_value]
          ltv == compute_ltv(state.deferred_payment_amount, collateral_usd_value)
      IN  IF ltv.err # "Ok" THEN FinRes(ltv.err, state, cnt, cust)
          ELSE IF ~(ltv.v <= state.max_ltv) THEN FinRes("LtvBreach", state, cnt, cust)
          ELSE FinRes("Ok", state, cnt, cust)

\* update_ltv that stores the new value without comparing the LTV to max_ltv
update_ltv_no_breach_check(cfg, old, cnt, cust, caller, collateral_usd_value) ==
    IF old = NoPosition THEN FinRes("AccountNotInitialized", old, cnt, cust)
    ELSE IF ~(caller = cfg.admin_authority \/ Contains(old.oracle_sources, caller))
         THEN FinRes("Unauthorized", old, cnt, cust)
    ELSE IF ~(collateral_usd_value > 0) THEN FinRes("ZeroCollateral", old, cnt, cust)
    ELSE FinRes("Ok", [old EXCEPT !.collateral_usd_value = collateral_usd_value], cnt, cust)

\* update_ltv.  The account constraints need the position to exist.
\* update_ltv that adds the reported value to the stored one instead of
\* replacing it
update_ltv_accumulating(cfg, old, cnt, cust, caller, collateral_usd_value) ==
    IF old = NoPosition THEN FinRes("AccountNotInitialized", old, cnt, cust)
    ELSE IF ~(caller = cfg.admin_authority \/ Contains(old.oracle_sources, caller))
         THEN FinRes("Unauthorized", old, cnt, cust)
    ELSE IF ~(collateral_usd_value > 0) THEN FinRes("ZeroCollateral", old, cnt, cust)
    ELSE
      LET state == [old EXCEPT !.collateral_usd_value = @ + collateral_usd_value]
          ltv == compute_ltv(state.deferred_payment_amount, state.collateral_usd_value)
      IN  IF ltv.err # "Ok" THEN FinRes(ltv.err, state, cnt, cust)
          ELSE IF ~(ltv.v <= state.max_ltv) THEN FinRes("LtvBreach", state, cnt, cust)
          ELSE FinRes("Ok", state, cnt, cust)

update_ltv_h(cfg, old, cnt, cust, caller, collateral_usd_value) ==
    IF old = NoPosition THEN FinRes("AccountNotInitialized", old, cnt, cust)
    ELSE IF ~(caller = cfg.admin_authority \/ Contains(old.oracle_sources, caller))
         THEN FinRes("Unauthorized", old, cnt, cust)
    ELSE IF ~(collateral_usd_value > 0) THEN FinRes("ZeroCollateral", old, cnt, cust)
    \* collateral_usd_value < u64::MAX / 10_000, i.e. (value + 1) * 10_000 fits
    \* u64, as the product of two plain integers always does
    ELSE IF ~(collateral_usd_value < NatLimit
              \/ FitsU64(BigShift(Digits(collateral_usd_value + 1), 4)))
         THEN FinRes("MathOverflow", old, cnt, cust)
    ELSE
      LET state == [old EXCEPT !.collateral_usd_value = collateral_usd_value]
          ltv == compute_ltv(state.deferred_payment_amount, collateral_usd_value)
      IN  IF ltv.err # "Ok" THEN FinRes(ltv.err, state, cnt, cust)
          ELSE IF ~(ltv.v <= state.max_ltv) THEN FinRes("LtvBreach", state, cnt, cust)
          ELSE FinRes("Ok", state, cnt, cust)

\* close_at_maturity that does not look at the clock
close_at_maturity_any_time(cfg, old, cnt, cust, receiver, timestamp, user_funded) ==
    IF old = NoPosition THEN FinRes("AccountNotInitialized", old, cnt, cust)
    ELSE IF ~(receiver = old.user_pubkey) THEN FinRes("Unauthorized", old, cnt, cust)
    ELSE IF cfg.protocol_paused THEN FinRes("ProtocolPaused", old, cnt, cust)
    ELSE IF ~(old.position_status = "Active") THEN FinRes("InvalidStatus", old, cnt, cust)
    ELSE IF ~user_funded THEN FinRes("InsufficientBalanceForClosure", old, cnt, cust)
    ELSE IF ~(cust >= old.collateral_amount) THEN FinRes("InsufficientFunds", old, cnt, cust)
    ELSE FinRes("Ok", [old EXCEPT !.position_status = "Closed"],
                [cnt EXCEPT !.open_positions = cnt.open_positions - 1],
                cust - old.collateral_amount)

\* close_at_maturity that leaves the position counter alone
close_at_maturity_keeps_count(cfg, old, cnt, cust, receiver, timestamp, user_funded) ==
    IF old = NoPosition THEN FinRes("AccountNotInitialized", old, cnt, cust)
    ELSE IF ~(receiver = old.user_pubkey) THEN FinRes("Unauthorized", old, cnt, cust)
    ELSE IF cfg.protocol_paused THEN FinRes("ProtocolPaused", old, cnt, cust)
    ELSE IF ~(timestamp >= old.term_end) THEN FinRes("NotMatured", old, cnt, cust)
    ELSE IF ~(old.position_status = "Active") THEN FinRes("InvalidStatus", old, cnt, cust)
    ELSE IF ~user_funded THEN FinRes("InsufficientBalanceForClosure", old, cnt, cust)
    ELSE IF ~(cust >= old.collateral_amount) THEN FinRes("InsufficientFunds", old, cnt, cust)
    ELSE FinRes("Ok", [old EXCEPT !.position_status = "Closed"], cnt,
                cust - old.collateral_amount)

\* close_at_maturity.  The receiver constraint of the accounts is checked
\* before the handler runs; user_funded says the owner's USDC account holds
\* the deferred payment.
close_at_maturity_h(cfg, old, cnt, cust, receiver, timestamp, user_funded) ==
    IF old = NoPosition THEN FinRes("AccountNotInitialized", old, cnt, cust)
    ELSE IF ~(receiver = old.user_pubkey) THEN FinRes("Unauthorized", old, cnt, cust)
    ELSE IF cfg.protocol_paused THEN FinRes("ProtocolPaused", old, cnt, cust)
    ELSE IF ~(timestamp >= old.term_end) THEN FinRes("NotMatured", old, cnt, cust)
    ELSE IF ~(old.position_status = "Active") THEN FinRes("InvalidStatus", old, cnt, cust)
    ELSE IF ~user_funded THEN FinRes("InsufficientBalanceForClosure", old, cnt, cust)
    ELSE IF ~(cust >= old.collateral_amount) THEN FinRes("InsufficientFunds", old, cnt, cust)
    ELSE IF cnt.open_positions = 0
         THEN FinRes("MathOverflow", old, cnt, cust - old.collateral_amount)
    ELSE FinRes("Ok", [old EXCEPT !.position_status = "Closed"],
                [cnt EXCEPT !.open_positions = cnt.open_positions - 1],
                cust - old.collateral_amount)

\* close_early that hands back the whole collateral, fee included
close_early_no_fee(cfg, old, cnt, cust, receiver, timestamp, user_funded) ==
    IF old = NoPosition THEN FinRes("AccountNotInitialized", old, cnt, cust)
    ELSE IF ~(receiver = old.user_pubkey) THEN FinRes("Unauthorized", old, cnt, cust)
    ELSE IF cfg.protocol_paused THEN FinRes("ProtocolPaused", old, cnt, cust)
    ELSE IF ~(timestamp < old.term_end) THEN FinRes("AlreadyMatured", old, cnt, cust)
    ELSE IF ~(old.position_status = "Active") THEN FinRes("InvalidStatus", old, cnt, cust)
    ELSE IF ~user_funded THEN FinRes("InsufficientBalanceForClosure", old, cnt, cust)
    ELSE IF ~(cust >= old.collateral_amount) THEN FinRes("InsufficientFunds", old, cnt, cust)
    ELSE FinRes("Ok", [old EXCEPT !.position_status = "Closed"],
                [cnt EXCEPT !.open_positions = cnt.open_positions - 1],
                cust - old.collateral_amount)

\* close_early
close_early_h(cfg, old, cnt, cust, receiver, timestamp, user_funded) ==
    IF old = NoPosition THEN FinRes("AccountNotInitialized", old, cnt, cust)
    ELSE IF ~(receiver = old.user_pubkey) THEN FinRes("Unauthorized", old, cnt, cust)
    ELSE IF cfg.protocol_paused THEN FinRes("ProtocolPaused", old, cnt, cust)
    ELSE IF ~(timestamp < old.term_end) THEN FinRes("AlreadyMatured", old, cnt, cust)
    ELSE IF ~(old.position_status = "Active") THEN FinRes("InvalidStatus", old, cnt, cust)
    ELSE
      LET fee == CheckedMulDiv(old.collateral_amount, EARLY_CLOSURE_FEE_BPS, BASIS_POINTS)
          early_closure_fee == fee.v
          amount_to_return == old.collateral_amount - early_closure_fee
      IN  IF ~fee.ok THEN FinRes("MathOverflow", old, cnt, cust)
          ELSE IF ~(early_closure_fee < old.collateral_amount)
               THEN FinRes("FeeExceedsCollateral", old, cnt, cust)
          ELSE IF ~(amount_to_return > 0) THEN FinRes("NoCollateralReturned", old, cnt, cust)
          ELSE IF ~user_funded THEN FinRes("InsufficientBalanceForClosure", old, cnt, cust)
          ELSE IF ~(cust >= amount_to_return) THEN FinRes("InsufficientFunds", old, cnt, cust)
          ELSE IF cnt.open_positions = 0
               THEN FinRes("MathOverflow", old, cnt, cust - amount_to_return)
          ELSE FinRes("Ok", [old EXCEPT !.position_status = "Closed"],
                      [cnt EXCEPT !.open_positions = cnt.open_positions - 1],
                      cust - amount_to_return)

\* the conversion of a liquidator's claim (USDC) into collateral units in
\* liquidate: total_claim * 10^8 * collateral_amount / collateral_usd_value / 100
\* in checked u64 arithmetic; digits is the amount, ok is FALSE on overflow
SeizeFor(state, total_claim) ==
    LET scaled == BigShift(Digits(total_claim), 8)
        product == BigMul(scaled, state.collateral_amount)
    IN  [ok |-> FitsU64(scaled) /\ FitsU64(product),
         digits |-> BigDiv(BigDiv(product, state.collateral_usd_value), 100)]

\* liquidate (the permissionless path).  liquidator_funded says the
\* liquidator's USDC account holds the debt to repay.
liquidate_h(cfg, old, cnt, cust, liquidation_percentage, liquidator_funded) ==
    IF old = NoPosition THEN FinRes("AccountNotInitialized", old, cnt, cust)
    ELSE IF cfg.protocol_paused THEN FinRes("ProtocolPaused", old, cnt, cust)
    ELSE
      LET current_ltv == PositionLtv(old)
          debt == CheckedMulDiv(old.deferred_payment_amount, liquidation_percentage, 100)
          debt_to_repay == debt.v
          bonus == CheckedMulDiv(debt_to_repay, EXTERNAL_LIQUIDATOR_BONUS_BPS, 10000)
          total_claim == debt_to_repay + bonus.v
          conv == SeizeFor(old, total_claim)
          seize == conv.digits
          collateral_to_seize == BigToNat(seize)
          new_amount == old.collateral_amount - collateral_to_seize
          new_value == CheckedMulDiv(old.collateral_usd_value, new_amount,
                                     new_amount + collateral_to_seize)
      IN  IF current_ltv.err # "Ok" THEN FinRes(current_ltv.err, old, cnt, cust)
          ELSE IF ~(current_ltv.v >= PERMISSIONLESS_LIQ_THRESHOLD)
               THEN FinRes("PositionHealthy", old, cnt, cust)
          ELSE IF ~(current_ltv.v < PROTOCOL_LIQ_THRESHOLD)
               THEN FinRes("UseProtocolLiquidation", old, cnt, cust)
          ELSE IF ~(liquidation_percentage > 0
                    /\ liquidation_percentage <= MAX_EXTERNAL_LIQ_PERCENTAGE)
               THEN FinRes("ExcessiveLiquidationPercentage", old, cnt, cust)
          ELSE IF ~debt.ok \/ ~bonus.ok THEN FinRes("MathOverflow", old, cnt, cust)
          ELSE IF ~liquidator_funded THEN FinRes("InsufficientFunds", old, cnt, cust)
          ELSE IF ~conv.ok THEN FinRes("MathOverflow", old, cnt, cust)
          ELSE IF ~BigLeq(seize, Digits(cust)) THEN FinRes("InsufficientFunds", old, cnt, cust)
          ELSE IF ~(collateral_to_seize <= old.collateral_amount)
               THEN FinRes("MathOverflow",
                           [old EXCEPT !.deferred_payment_amount = @ - debt_to_repay],
                           cnt, cust - collateral_to_seize)
          ELSE IF ~new_value.ok \/ new_amount + collateral_to_seize = 0
               THEN FinRes("MathOverflow",
                           [old EXCEPT !.deferred_payment_amount = @ - debt_to_repay,
                                       !.collateral_amount = new_amount],
                           cnt, cust - collateral_to_seize)
          ELSE FinRes("Ok",
                      [old EXCEPT !.deferred_payment_amount = @ - debt_to_repay,
                                  !.collateral_amount = new_amount,
                                  !.collateral_usd_value = new_value.v],
                      cnt, cust - collateral_to_seize)

\* force_liquidate_protocol without the protocol-threshold check
force_liquidate_protocol_any_ltv(cfg, old, cnt, cust, caller) ==
    IF old = NoPosition THEN FinRes("AccountNotInitialized", old, cnt, cust)
    ELSE IF cfg.protocol_paused THEN FinRes("ProtocolPaused", old, cnt, cust)
    ELSE IF ~(caller = cfg.admin_authority) THEN FinRes("Unauthorized", old, cnt, cust)
    ELSE
      LET sell == BigUnshift(BigDiv(BigMul(BigShift(Digits(
                      old.deferred_payment_amount
                      + CheckedMulDiv(old.deferred_payment_amount,
                                      FORCED_LIQ_FEE_BPS, 10000).v), 8),
                                           old.collateral_amount),
                                    old.collateral_usd_value), 8)
          remaining_collateral == old.collateral_amount - BigToNat(sell)
      IN  IF mock_sell_asset_to_usdc(old.collateral_mint) # "Ok"
          THEN FinRes("InvalidOracleSource", old, cnt, cust)
          ELSE IF ~BigLeq(sell, Digits(old.collateral_amount))
               THEN FinRes("MathOverflow", old, cnt, cust)
          ELSE IF remaining_collateral > 0 /\ ~(cust >= remaining_collateral)
               THEN FinRes("InsufficientFunds", old, cnt, cust)
          ELSE IF cnt.open_positions = 0 THEN FinRes("MathOverflow", old, cnt, cust)
          ELSE FinRes("Ok", [old EXCEPT !.position_status = "Liquidated"],
                      [cnt EXCEPT !.open_positions = cnt.open_positions - 1],
                      cust - remaining_collateral)

\* force_liquidate_protocol.  The sale runs in u128 and is cast to u64; for
\* amounts below 2^31 the quotient is below 2^64 and the cast keeps it.
force_liquidate_protocol_h(cfg, old, cnt, cust, caller) ==
    IF old = NoPosition THEN FinRes("AccountNotInitialized", old, cnt, cust)
    ELSE IF cfg.protocol_paused THEN FinRes("ProtocolPaused", old, cnt, cust)
    ELSE IF ~(caller = cfg.admin_authority) THEN FinRes("Unauthorized", old, cnt, cust)
    ELSE
      LET current_ltv == PositionLtv(old)
          total_debt == old.deferred_payment_amount
          fee == CheckedMulDiv(total_debt, FORCED_LIQ_FEE_BPS, 10000)
          total_needed == total_debt + fee.v
          sell == BigUnshift(BigDiv(BigMul(BigShift(Digits(total_needed), 8),
                                           old.collateral_amount),
                                    old.collateral_usd_value), 8)
          sold == mock_sell_asset_to_usdc(old.collateral_mint)
          remaining_collateral == old.collateral_amount - BigToNat(sell)
      IN  IF current_ltv.err # "Ok" THEN FinRes(current_ltv.err, old, cnt, cust)
          ELSE IF ~(current_ltv.v >= PROTOCOL_LIQ_THRESHOLD)
               THEN FinRes("NotAtProtocolThreshold", old, cnt, cust)
          ELSE IF ~fee.ok THEN FinRes("MathOverflow", old, cnt, cust)
          ELSE IF sold # "Ok" THEN FinRes(sold, old, cnt, cust)
          ELSE IF ~BigLeq(sell, Digits(old.collateral_amount))
               THEN FinRes("MathOverflow", old, cnt, cust)
          ELSE IF remaining_collateral > 0 /\ ~(cust >= remaining_collateral)
               THEN FinRes("InsufficientFunds", old, cnt, cust)
          ELSE IF cnt.open_positions = 0
               THEN FinRes("MathOverflow", [old EXCEPT !.position_status = "Liquidated"],
                           cnt, cust - remaining_collateral)
          ELSE FinRes("Ok", [old EXCEPT !.position_status = "Liquidated"],
                      [cnt EXCEPT !.open_positions = cnt.open_positions - 1],
                      cust - remaining_collateral)

\* pause_protocol / unpause_protocol act on the config only
\* pause_protocol that does not compare the signer with the admin
pause_protocol_anyone(cfg, caller) ==
    IF cfg.protocol_paused THEN [err |-> "AlreadyPaused", config |-> cfg]
    ELSE [err |-> "Ok", config |-> [cfg EXCEPT !.protocol_paused = TRUE]]

pause_protocol_h(cfg, caller) ==
    IF ~(caller = cfg.admin_authority) THEN [err |-> "Unauthorized", config |-> cfg]
    ELSE IF cfg.protocol_paused THEN [err |-> "AlreadyPaused", config |-> cfg]
    ELSE [err |-> "Ok", config |-> [cfg EXCEPT !.protocol_paused = TRUE]]

unpause_protocol_h(cfg, caller) ==
    IF ~(caller = cfg.admin_authority) THEN [err |-> "Unauthorized", config |-> cfg]
    ELSE IF ~cfg.protocol_paused THEN [err |-> "NotPaused", config |-> cfg]
    ELSE [err |-> "Ok", config |-> [cfg EXCEPT !.protocol_paused = FALSE]]

\* a runtime that keeps the account writes of a failed instruction too
CommitFinAlways(index, res, closes) ==
    /\ positions' = [positions EXCEPT ![index] =
                         IF res.err = "Ok" /\ closes THEN NoPosition ELSE res.state]
    /\ counter' = res.counter
    /\ custody' = res.custody

\* The runtime keeps an instruction's account writes only if it returned Ok;
\* closes: the instruction's accounts close the position account on success.
CommitFin(index, res, closes) ==
    /\ positions' = IF res.err = "Ok"
                    THEN [positions EXCEPT ![index] = IF closes THEN NoPosition ELSE res.state]
                    ELSE positions
    /\ counter' = IF res.err = "Ok" THEN res.counter ELSE counter
    /\ custody' = IF res.err = "Ok" THEN res.custody ELSE custody

\* Instructions are processed one at a time: finResult holds what the
\* instruction in flight was and what its handler saw and left, until the
\* result is returned to the client (FinReturn).
\* ltv is the LTV a liquidation computed for the position before acting (else -1),
\* closed is the position as the handler left it when the account was closed
FinCall(op, index, res, closes, caller, ltv, arg, inp) ==
    /\ CommitFin(index, res, closes)
    /\ finResult' = [op |-> op, err |-> res.err, caller |-> caller, index |-> index,
                     ltv |-> ltv,
                     arg |-> arg, inp |-> inp,
                     closed |-> IF res.err = "Ok" /\ closes THEN res.state ELSE NoPosition]
    /\ UNCHANGED <<vaultVars, liqVars>>

Owner == "alice"
Oracle == "bob"

\* arguments of initialize_financing: a sound base case, and variants of it
BaseOpen ==
    [kind |-> "open", collateral_mint |-> "SOL", collateral_amount |-> 10000,
     collateral_usd_value |-> 200000000, financed_mint |-> "XNT",
     financing_usdc_amount |-> 100000000, markup_bps |-> 1000,
     initial_ltv |-> 5000, max_ltv |-> 8000, liquidation_threshold |-> 9000,
     term_start |-> 0, term_end |-> 1, oracle_sources |-> <<Oracle>>,
     user_funded |-> TRUE, vault_funded |-> TRUE]

Ltvs(i, m, l) == [BaseOpen EXCEPT !.initial_ltv = i, !.max_ltv = m,
                                  !.liquidation_threshold = l]

OpenInputs ==
    { BaseOpen,
      [BaseOpen EXCEPT !.collateral_amount = 0],
      [BaseOpen EXCEPT !.collateral_usd_value = 99999999],
      [BaseOpen EXCEPT !.financing_usdc_amount = 49999999],
      [BaseOpen EXCEPT !.term_end = 0],
      [BaseOpen EXCEPT !.oracle_sources = <<>>],
      [BaseOpen EXCEPT !.oracle_sources = <<Oracle, Oracle, Oracle, Oracle>>],
      [BaseOpen EXCEPT !.oracle_sources = <<Oracle, DefaultKey>>],
      Ltvs(0, 8000, 9000), Ltvs(5000, 8000, 10001),
      Ltvs(8001, 8000, 9000), Ltvs(5000, 9000, 8999),
      Ltvs(5000, 8501, 9001), Ltvs(5000, 8000, 9001),
      Ltvs(5000, 8000, 8499), Ltvs(5000, 8500, 8999),
      Ltvs(5000, 8001, 8500),
      Ltvs(8500, 8500, 9000),
      [BaseOpen EXCEPT !.collateral_usd_value = 100000000, !.markup_bps = 20000],
      [BaseOpen EXCEPT !.collateral_usd_value = 100000000, !.markup_bps = 10000],
      [BaseOpen EXCEPT !.collateral_usd_value = 100000000],
      [BaseOpen EXCEPT !.financed_mint = "UNKNOWN"],
      [BaseOpen EXCEPT !.financing_usdc_amount = 200000000],
      [BaseOpen EXCEPT !.collateral_amount = 1, !.collateral_usd_value = 150000000],
      [BaseOpen EXCEPT !.user_funded = FALSE],
      [BaseOpen EXCEPT !.vault_funded = FALSE] }

\* collateral values written by update_ltv: LTV 7333, 7534 and 9166 of the base debt
CollateralValueInputs == {0, 150000000, 146000000, 120000000}

\* liquidation_percentage arguments around the 1..50 range
PercentageInputs == {0, 1, 50, 51}

\* what the caller's token account holds, as recorded with the instruction
Funds(funded) == [kind |-> "funds", funded |-> funded]

\* signers: of liquidate (anyone), of the closing instructions (the owner and
\* someone else), of the admin-gated instructions (the admin and someone else)
FinLiquidators == {"bob"}
Receivers == {Owner, "bob"}
Admins == {"admin", "bob"}

\* the LTV of the position at index as a liquidation handler computes it
HandlerLtv(index) ==
    IF positions[index] = NoPosition THEN -1 ELSE PositionLtv(positions[index]).v

\* the protocol config is initialised with its admin at deployment
InitFin ==
    /\ config = ConfigInitial
    /\ positions = PositionsInitial
    /\ counter = CounterInitial
    /\ custody = 0
    /\ now = 0
    /\ opens = 0
    /\ finResult = FinResultInitial
    /\ vault = VaultInitial
    /\ lpSupply = 0
    /\ vaultResult = VaultResultInitial
    /\ poolCalls = 0
    /\ authority = AuthorityInitial(DefaultKey)
    /\ slot = 1
    /\ ticks = 0
    /\ liqResult = LiqResultInitial

AdvanceTime ==
    /\ finResult.op = "none"
    /\ now < MaxNow
    /\ now' = now + 1
    /\ UNCHANGED <<config, positions, counter, custody, opens, finResult, vaultVars, liqVars>>

FinReturn ==
    /\ finResult.op # "none"
    /\ finResult' = FinResultInitial
    /\ UNCHANGED <<config, positions, counter, custody, now, opens, vaultVars, liqVars>>

initialize_financing ==
    /\ finResult.op = "none"
    /\ \E index \in Indices, a \in OpenInputs :
           LET res == initialize_financing_h(config, positions[index], counter, custody,
                                             Owner, index, a)
           IN  /\ res.err = "Ok" => opens < MaxOpens
               /\ opens' = IF res.err = "Ok" THEN opens + 1 ELSE opens
               /\ FinCall("initialize_financing", index, res, FALSE, Owner, -1, 0, a)
               /\ UNCHANGED <<config, now>>

update_ltv ==
    /\ finResult.op = "none"
    /\ \E index \in Indices, caller \in Signers, value \in CollateralValueInputs :
           /\ FinCall("update_ltv", index,
                      update_ltv_h(config, positions[index], counter, custody, caller, value),
                      FALSE, caller, -1, value, NoInput)
           /\ UNCHANGED <<config, now, opens>>

close_at_maturity ==
    /\ finResult.op = "none"
    /\ \E index \in Indices, receiver \in Receivers, user_funded \in BOOLEAN :
           /\ FinCall("close_at_maturity", index,
                      close_at_maturity_h(config, positions[index], counter, custody,
                                          receiver, now, user_funded),
                      TRUE, receiver, -1, 0, Funds(user_funded))
           /\ UNCHANGED <<config, now, opens>>

close_early ==
    /\ finResult.op = "none"
    /\ \E index \in Indices, receiver \in Receivers, user_funded \in BOOLEAN :
           /\ FinCall("close_early", index,
                      close_early_h(config, positions[index], counter, custody,
                                    receiver, now, user_funded),
                      TRUE, receiver, -1, 0, Funds(user_funded))
           /\ UNCHANGED <<config, now, opens>>

liquidate ==
    /\ finResult.op = "none"
    /\ \E index \in Indices, liquidator \in FinLiquidators,
          pct \in PercentageInputs, liquidator_funded \in BOOLEAN :
           /\ FinCall("liquidate", index,
                      liquidate_h(config, positions[index], counter, custody,
                                  pct, liquidator_funded),
                      TRUE, liquidator, HandlerLtv(index), pct, Funds(liquidator_funded))
           /\ UNCHANGED <<config, now, opens>>

force_liquidate_protocol ==
    /\ finResult.op = "none"
    /\ \E index \in Indices, caller \in Admins :
           /\ FinCall("force_liquidate_protocol", index,
                      force_liquidate_protocol_h(config, positions[index], counter,
                                                 custody, caller),
                      TRUE, caller, HandlerLtv(index), 0, NoInput)
           /\ UNCHANGED <<config, now, opens>>

pause_protocol ==
    /\ finResult.op = "none"
    /\ \E caller \in Admins :
           LET res == pause_protocol_h(config, caller)
           IN  /\ config' = IF res.err = "Ok" THEN res.config ELSE config
               /\ finResult' = [FinResultInitial EXCEPT !.op = "pause_protocol",
                                                        !.err = res.err, !.caller = caller]
               /\ UNCHANGED <<positions, counter, custody, now, opens, vaultVars, liqVars>>

unpause_protocol ==
    /\ finResult.op = "none"
    /\ \E caller \in Admins :
           LET res == unpause_protocol_h(config, caller)
           IN  /\ config' = IF res.err = "Ok" THEN res.config ELSE config
               /\ finResult' = [FinResultInitial EXCEPT !.op = "unpause_protocol",
                                                        !.err = res.err, !.caller = caller]
               /\ UNCHANGED <<positions, counter, custody, now, opens, vaultVars, liqVars>>

NextFin ==
    \/ AdvanceTime
    \/ FinReturn
    \/ initialize_financing
    \/ update_ltv
    \/ close_at_maturity
    \/ close_early
    \/ liquidate
    \/ force_liquidate_protocol
    \/ pause_protocol
    \/ unpause_protocol

SpecFin == InitFin /\ [][NextFin]_vars

\* The owner already holds MAX_POSITIONS - 1 open positions at indices above
\* MaxIndex, each opened with one unit of collateral; those positions are not
\* followed further, the slots 0..MaxIndex are free.
InitFull ==
    /\ config = ConfigInitial
    /\ positions = PositionsInitial
    /\ counter = [user |-> Owner, open_positions |-> MAX_POSITIONS - 1,
                  total_positions |-> MaxIndex + MAX_POSITIONS]
    /\ custody = MAX_POSITIONS - 1
    /\ now = 0
    /\ opens = 0
    /\ finResult = FinResultInitial
    /\ vault = VaultInitial
    /\ lpSupply = 0
    /\ vaultResult = VaultResultInitial
    /\ poolCalls = 0
    /\ authority = AuthorityInitial(DefaultKey)
    /\ slot = 1
    /\ ticks = 0
    /\ liqResult = LiqResultInitial

SpecFull == InitFull /\ [][NextFin]_vars

(***************************************************************************)
(* The two circuit breakers and the keys that control them                 *)
(***************************************************************************)
update_admin_authority_h(cfg, caller, new_admin) ==
    IF ~(caller = cfg.admin_authority) THEN [err |-> "Unauthorized", config |-> cfg]
    ELSE IF ~(new_admin # DefaultKey) THEN [err |-> "InvalidAdmin", config |-> cfg]
    ELSE [err |-> "Ok", config |-> [cfg EXCEPT !.admin_authority = new_admin]]

migrate_vault_authority_h(v, lp, caller, new_authority) ==
    IF v.authority # DefaultKey /\ ~assert_authority(v, caller)
    THEN VaultRes("Unauthorized", v, lp)
    ELSE VaultRes("Ok", [v EXCEPT !.authority = new_authority], lp)

\* an lp_vault instruction whose result names its signer; amount holds nothing
AdminCall(op, res, caller) ==
    /\ CommitVault(res)
    /\ vaultResult' = [op |-> op, err |-> res.err, amount |-> 0, amount2 |-> 0,
                       caller |-> caller]
    /\ UNCHANGED <<poolCalls, liqVars, finVars>>

\* initialize_protocol_config by the admin; initialize_vault with the admin's
\* key or with the all-zero key as authority
InitBreaker ==
    /\ config = ConfigInitial
    /\ positions = PositionsInitial
    /\ counter = CounterInitial
    /\ custody = 0
    /\ now = 0
    /\ opens = 0
    /\ finResult = FinResultInitial
    /\ vault \in {[VaultInitial EXCEPT !.authority = a] : a \in {"admin", DefaultKey}}
    /\ lpSupply = 0
    /\ vaultResult = VaultResultInitial
    /\ poolCalls = 0
    /\ authority = AuthorityInitial(DefaultKey)
    /\ slot = 1
    /\ ticks = 0
    /\ liqResult = LiqResultInitial

update_admin_authority ==
    /\ finResult.op = "none"
    /\ \E caller \in Admins, new_admin \in Admins \cup {DefaultKey} :
           LET res == update_admin_authority_h(config, caller, new_admin)
           IN  /\ config' = IF res.err = "Ok" THEN res.config ELSE config
               /\ finResult' = [FinResultInitial EXCEPT !.op = "update_admin_authority",
                                                        !.err = res.err, !.caller = caller]
               /\ UNCHANGED <<positions, counter, custody, now, opens, vaultVars, liqVars>>

migrate_vault_authority ==
    \E caller \in VaultCallers, new_authority \in VaultCallers :
        AdminCall("migrate_vault_authority",
                  migrate_vault_authority_h(vault, lpSupply, caller, new_authority), caller)

pause_vault_signed ==
    \E caller \in VaultCallers :
        AdminCall("pause_vault", pause_vault_h(vault, lpSupply, caller), caller)

unpause_vault_signed ==
    \E caller \in VaultCallers :
        AdminCall("unpause_vault", unpause_vault_h(vault, lpSupply, caller), caller)

NextBreaker ==
    \/ FinReturn
    \/ pause_protocol
    \/ unpause_protocol
    \/ update_admin_authority
    \/ pause_vault_signed
    \/ unpause_vault_signed
    \/ migrate_vault_authority

SpecBreaker == InitBreaker /\ [][NextBreaker]_vars

(***************************************************************************)
(* Claims about the liquidity pool                                         *)
(***************************************************************************)

\* C1: pool solvency -- in every state reachable from an initialized pool by
\* deposit, withdraw, allocate, release and bad-debt write-off calls, the
\* balance is at least the amount locked for financing.
C1_PoolSolvency == vault.vault_usdc_balance >= vault.locked_for_financing

(***************************************************************************)
(* Claims about the snapshot liquidation executor                          *)
(***************************************************************************)

\* C2: a frozen snapshot is executed at most once -- once execute_liquidation
\* has set executed, another execute_liquidation on the record fails until
\* distribute_liquidation_proceeds has reset it.
C2_ExecuteAtMostOnce ==
    [][(authority.executed /\ liqResult'.op = "execute_liquidation")
          => liqResult'.err # "Ok"]_vars

\* C3: freezing while the record holds a snapshot younger than 100 slots fails
\* with DoubleLiquidation and leaves the frozen slot and price unchanged;
\* freezing when the held snapshot is at least 100 slots old succeeds and
\* overwrites the slot with the current slot and the price with the new price.
C3_FreezeExpiry ==
    [][liqResult'.op = "freeze_oracle_snapshot" =>
         LET held == authority.frozen_snapshot_slot > 0
             age == slot - authority.frozen_snapshot_slot
         IN  /\ (held /\ age < 100) =>
                   /\ liqResult'.err = "DoubleLiquidation"
                   /\ authority'.frozen_snapshot_slot = authority.frozen_snapshot_slot
                   /\ authority'.frozen_price = authority.frozen_price
             /\ (held /\ age >= 100) =>
                   /\ liqResult'.err = "Ok"
                   /\ authority'.frozen_snapshot_slot = slot
                   /\ authority'.frozen_price = liqResult'.price]_vars

\* a snapshot at least 100 slots old has been replaced by a new freeze
C3_Witness ==
    /\ liqResult.op = "freeze_oracle_snapshot"
    /\ liqResult.err = "Ok"
    /\ liqResult.age >= 100
    /\ authority.frozen_snapshot_slot = slot
    /\ authority.frozen_price = liqResult.price

\* C4: execute_liquidation fails and leaves the record (executed flag and
\* snapshot) as it was whenever the signer is not the registered delegate, the
\* registered delegate is the default identity, ltv is below the threshold or
\* the slippage bound exceeds 200 bps; the delegate check does not depend on ltv.
C4_ExecuteRejects ==
    [][(/\ liqResult'.op = "execute_liquidation"
        /\ \/ liqResult'.caller # authority.delegated_liquidator
           \/ authority.delegated_liquidator = DefaultKey
           \/ liqResult'.ltv < liqResult'.threshold
           \/ liqResult'.slippage > 200)
          => /\ liqResult'.err # "Ok"
             /\ authority' = authority]_vars

\* a signer other than the delegate was rejected although ltv was above the
\* threshold, the slippage bound was in range and a snapshot was frozen
C4_Witness ==
    /\ liqResult.op = "execute_liquidation"
    /\ liqResult.err = "Unauthorized"
    /\ liqResult.caller # authority.delegated_liquidator
    /\ liqResult.ltv >= liqResult.threshold
    /\ liqResult.slippage <= 200
    /\ authority.frozen_snapshot_slot > 0
    /\ ~authority.executed

\* C5: execute_liquidation needs a live snapshot -- it fails when none is
\* frozen and when the frozen one has reached the 100-slot expiry age.
C5_ExecuteNeedsLiveSnapshot ==
    [][(/\ liqResult'.op = "execute_liquidation"
        /\ \/ authority.frozen_snapshot_slot = 0
           \/ slot - authority.frozen_snapshot_slot >= 100)
          => liqResult'.err # "Ok"]_vars

(***************************************************************************)
(* Claims about the financing engine                                       *)
(***************************************************************************)
PositionOps ==
    {"initialize_financing", "update_ltv", "close_at_maturity", "close_early",
     "liquidate", "force_liquidate_protocol"}

C7_PausedBlocksPositionOps ==
    [][(config.protocol_paused /\ finResult'.op \in PositionOps) =>
         /\ finResult'.err # "Ok"
         /\ UNCHANGED <<config, positions, counter, custody>>]_vars

C9_LtvOrdering ==
    [][LET WellFormed(r) ==
               /\ r.initial_ltv <= r.max_ltv
               /\ r.max_ltv <= r.liquidation_threshold
               /\ r.max_ltv <= 8500
               /\ r.liquidation_threshold <= 9000
               /\ r.liquidation_threshold - r.max_ltv >= 500
       IN  /\ \A i \in Indices :
                 positions'[i] # NoPosition => WellFormed(positions'[i])
           /\ (finResult'.op = "initialize_financing" /\ ~WellFormed(finResult'.inp))
                 => finResult'.err # "Ok"]_vars

\* a position stored at the caps (8500 / 9000, buffer exactly 500) whose
\* collateral value has since been rewritten
C9_Witness ==
    /\ finResult.op = "update_ltv"
    /\ finResult.err = "Ok"
    /\ positions[finResult.index] # NoPosition
    /\ positions[finResult.index].initial_ltv = 8500
    /\ positions[finResult.index].max_ltv = 8500
    /\ positions[finResult.index].liquidation_threshold = 9000
    /\ positions[finResult.index].collateral_usd_value = 150000000

C11_PermissionlessSucceeds ==
    [][(/\ finResult'.op = "liquidate"
        /\ positions[finResult'.index] # NoPosition
        /\ positions[finResult'.index].position_status = "Active"
        /\ ~config.protocol_paused
        /\ finResult'.ltv >= 7300
        /\ finResult'.ltv < 7500
        /\ finResult'.arg >= 1
        /\ finResult'.arg <= 50
        /\ finResult'.inp.funded)
       => finResult'.err = "Ok"]_vars

\* C12: a liquidate call that passes the gating (position Active, LTV in
\* [7300, 7500), percentage in 1..50) turns debt_to_repay = floor(deferred *
\* pct / 100) plus bonus = floor(debt_to_repay * 500 / 10000) into an amount
\* of collateral that does not exceed the position's collateral.
C12_SeizeWithinCollateral ==
    [][(/\ finResult'.op = "liquidate"
        /\ positions[finResult'.index] # NoPosition
        /\ ~config.protocol_paused
        /\ finResult'.ltv >= 7300
        /\ finResult'.ltv < 7500
        /\ finResult'.arg >= 1
        /\ finResult'.arg <= 50)
       => LET state == positions[finResult'.index]
              debt_to_repay == (state.deferred_payment_amount * finResult'.arg) \div 100
              bonus == CheckedMulDiv(debt_to_repay, 500, 10000).v
              conv == SeizeFor(state, debt_to_repay + bonus)
          IN  /\ conv.ok
              /\ BigLeq(conv.digits, Digits(state.collateral_amount))]_vars

\* C13: when the admin force-liquidates an Active position whose LTV is at
\* least 7500 and whose collateral is worth less than the debt plus the 5%
\* fee, the call completes: the position ends Liquidated and open_positions
\* drops by 1 (the shortfall being reported as bad debt).
C13_InsolventForceCompletes ==
    [][(/\ finResult'.op = "force_liquidate_protocol"
        /\ finResult'.caller = config.admin_authority
        /\ ~config.protocol_paused
        /\ positions[finResult'.index] # NoPosition
        /\ positions[finResult'.index].position_status = "Active"
        /\ finResult'.ltv >= 7500
        /\ LET state == positions[finResult'.index]
           IN  state.collateral_usd_value
                 < state.deferred_payment_amount
                   + CheckedMulDiv(state.deferred_payment_amount, 500, 10000).v)
       => /\ finResult'.err = "Ok"
          /\ finResult'.closed.position_status = "Liquidated"
          /\ counter'.open_positions = counter.open_positions - 1]_vars

\* C14: after every successful update_ltv the position holds the new
\* collateral value and its LTV, floor(deferred * 10000 / collateral value),
\* is at most max_ltv; an authorized update with a positive value whose
\* resulting LTV exceeds max_ltv fails with LtvBreach.
C14_PriceUpdateKeepsLtv ==
    [][(/\ finResult'.op = "update_ltv"
        /\ positions[finResult'.index] # NoPosition)
       => LET old == positions[finResult'.index]
              new == [old EXCEPT !.collateral_usd_value = finResult'.arg]
          IN  /\ finResult'.err = "Ok"
                   => /\ positions'[finResult'.index] = new
                      /\ PositionLtv(new).err = "Ok"
                      /\ PositionLtv(new).v <= old.max_ltv
              /\ (/\ finResult'.caller = config.admin_authority
                     \/ Contains(old.oracle_sources, finResult'.caller)
                  /\ finResult'.arg > 0
                  /\ PositionLtv(new).err = "Ok"
                  /\ PositionLtv(new).v > old.max_ltv)
                   => finResult'.err = "LtvBreach"]_vars

\* An update to 150,000,000 has been accepted: the position is at LTV 7333.
C14_Witness ==
    /\ finResult.op = "update_ltv"
    /\ finResult.err = "Ok"
    /\ positions[finResult.index] # NoPosition
    /\ positions[finResult.index].collateral_usd_value = finResult.arg
    /\ finResult.arg = 150000000
    /\ PositionLtv(positions[finResult.index]).v = 7333

C16_OpenInputValidation ==
    [][(finResult'.op = "initialize_financing")
       => LET a == finResult'.inp
              src == a.oracle_sources
              zero == a.collateral_amount = 0
              small == a.collateral_usd_value < 100000000
                         \/ a.financing_usdc_amount < 50000000
              term == a.term_end <= a.term_start
              empty == Len(src) = 0
              many == Len(src) > 3
              default == \E k \in DOMAIN src : src[k] = DefaultKey
              free == positions[finResult'.index] = NoPosition /\ ~config.protocol_paused
          IN  /\ (zero \/ small \/ term \/ empty \/ many \/ default)
                   => /\ finResult'.err # "Ok"
                      /\ positions' = positions
                      /\ counter' = counter
                      /\ custody' = custody
              /\ free /\ zero => finResult'.err = "ZeroCollateral"
              /\ free /\ ~zero /\ small => finResult'.err = "PositionTooSmall"
              /\ free /\ ~zero /\ ~small /\ term => finResult'.err = "InvalidTerm"
              /\ free /\ ~zero /\ ~small /\ ~term /\ empty
                   => finResult'.err = "NoOracleSources"
              /\ free /\ ~zero /\ ~small /\ ~term /\ many
                   => finResult'.err = "TooManyOracleSources"
              /\ free /\ ~zero /\ ~small /\ ~term /\ ~empty /\ ~many /\ default
                   => finResult'.err = "InvalidOracleSource"]_vars

\* An otherwise acceptable request naming the default identity as a source
\* has been turned away on a free slot.
C16_Witness ==
    /\ finResult.op = "initialize_financing"
    /\ finResult.err = "InvalidOracleSource"
    /\ finResult.inp.collateral_amount > 0
    /\ finResult.inp.collateral_usd_value >= 100000000
    /\ finResult.inp.financing_usdc_amount >= 50000000
    /\ finResult.inp.term_end > finResult.inp.term_start
    /\ \E k \in DOMAIN finResult.inp.oracle_sources :
           finResult.inp.oracle_sources[k] = DefaultKey
    /\ positions[finResult.index] = NoPosition

\* C17: initialize_financing succeeds only if the collateral value is strictly
\* above markup_amount = floor(financing * markup_bps / 10000); a request whose
\* collateral value is at most markup_amount is rejected.
C17_CollateralExceedsMarkup ==
    [][(/\ finResult'.op = "initialize_financing"
        /\ finResult'.inp.collateral_usd_value
             <= CheckedMulDiv(finResult'.inp.financing_usdc_amount,
                              finResult'.inp.markup_bps, 10000).v)
       => finResult'.err # "Ok"]_vars

\* C18: open_positions never exceeds 250, and initialize_financing called
\* when open_positions is already 250 is rejected; a request that is
\* otherwise acceptable, on a free slot of an unpaused protocol, is rejected
\* with TooManyPositions.
C18_PositionLimit ==
    [][/\ counter'.open_positions <= 250
       /\ (finResult'.op = "initialize_financing" /\ counter.open_positions = 250)
            => /\ finResult'.err # "Ok"
               /\ counter' = counter
               /\ (/\ finResult'.inp = BaseOpen
                   /\ positions[finResult'.index] = NoPosition
                   /\ ~config.protocol_paused)
                    => finResult'.err = "TooManyPositions"]_vars

\* With 250 positions open, one more request has been turned away.
C18_Witness ==
    /\ finResult.op = "initialize_financing"
    /\ finResult.err = "TooManyPositions"
    /\ finResult.inp = BaseOpen
    /\ counter.open_positions = 250
    /\ positions[finResult.index] = NoPosition

\* C19: close_at_maturity succeeds only when the caller is the position's
\* owner, the clock has reached term_end, the position is Active and the owner
\* holds the deferred payment, and on an unpaused protocol it then does
\* succeed: the whole collateral leaves custody, open_positions drops by 1 and
\* the position is closed with status Closed.  Otherwise the call fails, with
\* Unauthorized, NotMatured, InvalidStatus or InsufficientBalanceForClosure
\* (in this order) on an unpaused protocol, and nothing changes.
C19_CloseAtMaturity ==
    [][(/\ finResult'.op = "close_at_maturity"
        /\ positions[finResult'.index] # NoPosition)
       => LET state == positions[finResult'.index]
              owner == finResult'.caller = state.user_pubkey
              matured == now >= state.term_end
              active == state.position_status = "Active"
              funded == finResult'.inp.funded
          IN  /\ finResult'.err = "Ok"
                   => /\ owner /\ matured /\ active /\ funded
                      /\ custody' = custody - state.collateral_amount
                      /\ counter'.open_positions = counter.open_positions - 1
                      /\ finResult'.closed = [state EXCEPT !.position_status = "Closed"]
                      /\ positions'[finResult'.index] = NoPosition
              /\ (owner /\ matured /\ active /\ funded /\ ~config.protocol_paused)
                   => finResult'.err = "Ok"
              /\ finResult'.err # "Ok"
                   => positions' = positions /\ counter' = counter /\ custody' = custody
              /\ ~owner => finResult'.err = "Unauthorized"
              /\ ~config.protocol_paused
                   => /\ owner /\ ~matured => finResult'.err = "NotMatured"
                      /\ owner /\ matured /\ ~active => finResult'.err = "InvalidStatus"
                      /\ owner /\ matured /\ active /\ ~funded
                           => finResult'.err = "InsufficientBalanceForClosure"]_vars

\* The owner has closed a matured position and the 10,000 units of
\* collateral have left custody.
C19_Witness ==
    /\ finResult.op = "close_at_maturity"
    /\ finResult.err = "Ok"
    /\ finResult.caller = Owner
    /\ finResult.closed.position_status = "Closed"
    /\ finResult.closed.collateral_amount = 10000
    /\ now >= finResult.closed.term_end
    /\ positions[finResult.index] = NoPosition
    /\ counter.open_positions = 0
    /\ custody = 0

C21_DistributeResets ==
    [][/\ liqResult'.op = "distribute_liquidation_proceeds"
         => LET total_proceeds == liqResult'.price
                fee == (total_proceeds * 3) \div 100
            IN  /\ liqResult'.err = "Ok"
                /\ authority'.last_fee_accrued = fee
                /\ authority'.last_user_return = total_proceeds - fee
                /\ authority'.last_fee_accrued + authority'.last_user_return
                     = total_proceeds
                /\ authority'.frozen_snapshot_slot = 0
                /\ authority'.frozen_price = 0
                /\ authority'.executed = FALSE
                /\ authority'.delegated_liquidator = authority.delegated_liquidator
       /\ (/\ liqResult.op = "distribute_liquidation_proceeds"
           /\ liqResult'.op = "freeze_oracle_snapshot")
         => /\ liqResult'.err = "Ok"
            /\ authority'.frozen_snapshot_slot = slot
            /\ authority'.frozen_price = liqResult'.price]_vars

\* Proceeds of 10,000 were distributed (fee 300, return 9,700) from a record
\* that held a snapshot, and the record is clear again.
C21_Witness ==
    /\ liqResult.op = "distribute_liquidation_proceeds"
    /\ liqResult.err = "Ok"
    /\ liqResult.price = 10000
    /\ liqResult.age >= 0
    /\ authority.last_fee_accrued = 300
    /\ authority.last_user_return = 9700
    /\ authority.frozen_snapshot_slot = 0
    /\ authority.executed = FALSE

\* C22: while a record has executed = true, no freeze_oracle_snapshot call
\* changes frozen_snapshot_slot or frozen_price, whatever the age of the
\* snapshot, and only distribute_liquidation_proceeds clears executed.
C22_ExecutedIsTerminal ==
    [][authority.executed
       => /\ liqResult'.op = "freeze_oracle_snapshot"
               => /\ authority'.frozen_snapshot_slot = authority.frozen_snapshot_slot
                  /\ authority'.frozen_price = authority.frozen_price
          /\ ~authority'.executed
               => liqResult'.op = "distribute_liquidation_proceeds"]_vars

C24_DepositKeepsSharePrice ==
    [][(vaultResult'.op = "deposit_usdc" /\ vaultResult'.err = "Ok")
       => share_price(vault') >= share_price(vault)]_vars

\* C25: redeem_amount(shares) * total_shares <= balance * shares for every
\* shares <= total_shares; withdraw_usdc fails when shares is 0, exceeds
\* total_shares, or redeems more than balance - locked_for_financing; and a
\* successful withdrawal leaves balance >= locked_for_financing.
C25_WithdrawCreatesNoValue ==
    [][vaultResult'.op = "withdraw_usdc"
       => LET shares == vaultResult'.amount
              available == Max(vault.vault_usdc_balance - vault.locked_for_financing, 0)
          IN  /\ \A n \in 1..vault.total_shares :
                     redeem_amount(vault, n) * vault.total_shares
                       <= vault.vault_usdc_balance * n
              /\ (shares = 0 \/ shares > vault.total_shares)
                   => vaultResult'.err # "Ok"
              /\ (shares > 0 /\ shares <= vault.total_shares
                  /\ redeem_amount(vault, shares) > available)
                   => vaultResult'.err # "Ok"
              /\ vaultResult'.err # "Ok" => vault' = vault /\ lpSupply' = lpSupply
              /\ vaultResult'.err = "Ok"
                   => vault'.vault_usdc_balance >= vault'.locked_for_financing]_vars

\* C26: no successful pool instruction other than write_off_bad_debt (deposit,
\* withdraw, allocate, release, mint_shares, burn_shares) leaves the share
\* price balance / total_shares lower than it found it.
C26_OnlyBadDebtLowersPrice ==
    [][(/\ vaultResult'.op \in {"deposit_usdc", "withdraw_usdc", "allocate_financing",
                                "release_financing", "mint_shares", "burn_shares"}
        /\ vaultResult'.err = "Ok"
        /\ vault.total_shares > 0
        /\ vault'.total_shares > 0)
       => vault'.vault_usdc_balance * vault.total_shares
            >= vault.vault_usdc_balance * vault'.total_shares]_vars

\* C27: allocate_financing(amount) with amount above the balance fails with
\* InsufficientLiquidity and changes nothing; a successful one takes amount
\* off the balance and adds it to locked_for_financing (1,000 / 0 with 500
\* gives 500 / 500); releasing the same amount right afterwards brings both
\* back to their values before the allocation.
C27_AllocateThenRelease ==
    [][/\ vaultResult'.op = "allocate_financing"
         => LET amount == vaultResult'.amount
            IN  /\ amount > vault.vault_usdc_balance
                     => /\ vaultResult'.err = "InsufficientLiquidity"
                        /\ vault' = vault
                /\ vaultResult'.err = "Ok"
                     => /\ vault'.vault_usdc_balance = vault.vault_usdc_balance - amount
                        /\ vault'.locked_for_financing = vault.locked_for_financing + amount
                        /\ vault'.total_shares = vault.total_shares
                /\ (/\ vault.vault_usdc_balance = 1000 /\ vault.locked_for_financing = 0
                    /\ amount = 500)
                     => /\ vaultResult'.err = "Ok"
                        /\ vault'.vault_usdc_balance = 500
                        /\ vault'.locked_for_financing = 500
       /\ (/\ vaultResult.op = "allocate_financing" /\ vaultResult.err = "Ok"
           /\ vaultResult'.op = "release_financing" /\ vaultResult'.err = "Ok"
           /\ vaultResult'.amount = vaultResult.amount)
         => /\ vault'.vault_usdc_balance = vault.vault_usdc_balance + vaultResult.amount
            /\ vault'.locked_for_financing = vault.locked_for_financing - vaultResult.amount
            /\ vault'.total_shares = vault.total_shares]_vars

\* 500 were allocated from 1,000 / 0 and released again: 1,000 / 0 is back.
C27_Witness ==
    /\ vaultResult.op = "release_financing"
    /\ vaultResult.err = "Ok"
    /\ vaultResult.amount = 500
    /\ poolCalls = 3
    /\ vault.total_shares = 1000
    /\ vault.vault_usdc_balance = 1000
    /\ vault.locked_for_financing = 0
    /\ vault.utilization = 0

\* C28: a successful release_financing(amount) lowers locked_for_financing by
\* min(amount, locked_for_financing), so never below 0, and raises the balance
\* by amount, also when amount exceeds what is locked (200 / 300 with 250
\* gives 450 / 50); it fails only when the caller cannot pay the amount.
C28_ReleaseClampsUnlock ==
    [][vaultResult'.op = "release_financing"
       => LET amount == vaultResult'.amount
          IN  /\ vaultResult'.err \in {"Ok", "InsufficientFunds"}
              /\ vaultResult'.err # "Ok" => vault' = vault
              /\ vaultResult'.err = "Ok"
                   => /\ vault'.locked_for_financing
                           = vault.locked_for_financing
                               - Min(amount, vault.locked_for_financing)
                      /\ vault'.locked_for_financing >= 0
                      /\ vault'.vault_usdc_balance = vault.vault_usdc_balance + amount
                      /\ vault'.total_shares = vault.total_shares
                      /\ (/\ vault.vault_usdc_balance = 200
                          /\ vault.locked_for_financing = 300
                          /\ amount = 250)
                           => /\ vault'.vault_usdc_balance = 450
                              /\ vault'.locked_for_financing = 50]_vars

\* 250 were released into a pool at 200 / 300, which is now at 450 / 50.
C28_Witness ==
    /\ vaultResult.op = "release_financing"
    /\ vaultResult.err = "Ok"
    /\ vaultResult.amount = 250
    /\ poolCalls = 4
    /\ vault.vault_usdc_balance = 450
    /\ vault.locked_for_financing = 50

\* C29: write_off_bad_debt(financing_amount, bad_debt) signed by anyone but
\* the pool authority fails with Unauthorized and changes nothing; signed by
\* the authority it lowers locked_for_financing by min(financing_amount,
\* locked_for_financing) and the balance by bad_debt (2,000 / 1,000 with
\* (800, 400) gives 1,600 / 200) and leaves total_shares unchanged.
C29_WriteOffBadDebt ==
    [][vaultResult'.op = "write_off_bad_debt"
       => LET financing_amount == vaultResult'.amount
              bad_debt == vaultResult'.amount2
          IN  /\ vaultResult'.caller # vault.authority
                   => vaultResult'.err = "Unauthorized" /\ vault' = vault
              /\ vaultResult'.caller = vault.authority
                   => /\ vaultResult'.err = "Ok"
                      /\ vault'.locked_for_financing
                           = vault.locked_for_financing
                               - Min(financing_amount, vault.locked_for_financing)
                      /\ vault'.vault_usdc_balance = vault.vault_usdc_balance - bad_debt
                      /\ vault'.total_shares = vault.total_shares]_vars

C31_PriceUpdateIdempotent ==
    (finResult.op = "update_ltv" /\ finResult.err = "Ok")
        => LET state == positions[finResult.index]
               again == update_ltv_h(config, state, counter, custody,
                                     finResult.caller, finResult.arg)
           IN  /\ again.err = "Ok"
               /\ again.state = state
               /\ again.counter = counter
               /\ again.custody = custody
               /\ PositionLtv(again.state) = PositionLtv(state)

\* update_ltv(150,000,000) by the oracle has moved a position from the
\* 200,000,000 it was opened with; its LTV is now 7,333.
C31_Witness ==
    /\ finResult.op = "update_ltv"
    /\ finResult.err = "Ok"
    /\ finResult.caller = Oracle
    /\ finResult.arg = 150000000
    /\ positions[finResult.index].collateral_usd_value = 150000000
    /\ PositionLtv(positions[finResult.index]).v = 7333

\* C32: a partial permissionless liquidation keeps the position: a liquidate
\* call on an Active position with LTV in [7300, 7500), a percentage in 1..50,
\* a funded liquidator and the protocol not paused leaves the position record
\* in place, Active, with its debt lowered by floor(deferred * pct / 100) and
\* less collateral than before.
C32_PartialLiquidationKeepsPosition ==
    [][(/\ finResult'.op = "liquidate"
        /\ positions[finResult'.index] # NoPosition
        /\ positions[finResult'.index].position_status = "Active"
        /\ ~config.protocol_paused
        /\ finResult'.ltv >= PERMISSIONLESS_LIQ_THRESHOLD
        /\ finResult'.ltv < PROTOCOL_LIQ_THRESHOLD
        /\ finResult'.arg >= 1
        /\ finResult'.arg <= MAX_EXTERNAL_LIQ_PERCENTAGE
        /\ finResult'.inp.funded)
       => LET before == positions[finResult'.index]
              after == positions'[finResult'.index]
              debt_to_repay ==
                  CheckedMulDiv(before.deferred_payment_amount, finResult'.arg, 100).v
          IN  /\ after # NoPosition
              /\ after.position_status = "Active"
              /\ after.deferred_payment_amount
                   = before.deferred_payment_amount - debt_to_repay
              /\ after.collateral_amount < before.collateral_amount]_vars

\* C33: the record moves Idle -> Frozen -> Executed -> Idle only: while a
\* snapshot is frozen, not executed and younger than MAX_SNAPSHOT_AGE_SLOTS,
\* no freeze_oracle_snapshot or distribute_liquidation_proceeds call clears
\* it or replaces its slot or price.
C33_FrozenSnapshotStays ==
    [][(/\ liqResult'.op \in {"freeze_oracle_snapshot", "distribute_liquidation_proceeds"}
        /\ authority.frozen_snapshot_slot # 0
        /\ ~authority.executed
        /\ SnapshotAge(authority, slot) < MAX_SNAPSHOT_AGE_SLOTS)
       => /\ authority'.frozen_snapshot_slot = authority.frozen_snapshot_slot
          /\ authority'.frozen_price = authority.frozen_price
          /\ authority'.executed = authority.executed]_vars

\* C34: while the pool is paused, deposit_usdc, withdraw_usdc,
\* allocate_financing and release_financing each fail with VaultPaused and
\* leave total_shares, the balance, locked_for_financing and utilization
\* unchanged.
C34_PausedBlocksPoolOps ==
    [][(/\ vault.paused
        /\ vaultResult'.op \in {"deposit_usdc", "withdraw_usdc",
                                "allocate_financing", "release_financing"})
       => /\ vaultResult'.err = "VaultPaused"
          /\ vault'.total_shares = vault.total_shares
          /\ vault'.vault_usdc_balance = vault.vault_usdc_balance
          /\ vault'.locked_for_financing = vault.locked_for_financing
          /\ vault'.utilization = vault.utilization]_vars

\* C35: each circuit-breaker flag is written only by its admin and
\* alternates.  For pause_protocol / unpause_protocol against the config's
\* admin_authority and for pause_vault / unpause_vault against the pool's
\* authority: a call signed by another key fails with Unauthorized; a pause
\* while paused fails with AlreadyPaused and an unpause while not paused with
\* NotPaused; a failed call changes nothing; a successful pause sets the flag
\* and a successful unpause clears it; and the flag changes in no other step.
C35_BreakersAlternate ==
    [][/\ (finResult.op = "none" /\ finResult'.op \in {"pause_protocol", "unpause_protocol"})
            => LET pausing == finResult'.op = "pause_protocol"
                   expected ==
                       IF finResult'.caller # config.admin_authority THEN "Unauthorized"
                       ELSE IF pausing /\ config.protocol_paused THEN "AlreadyPaused"
                       ELSE IF ~pausing /\ ~config.protocol_paused THEN "NotPaused"
                       ELSE "Ok"
               IN  /\ finResult'.err = expected
                   /\ config' = IF expected = "Ok"
                                THEN [config EXCEPT !.protocol_paused = pausing]
                                ELSE config
       /\ (vaultResult' # vaultResult /\ vaultResult'.op \in {"pause_vault", "unpause_vault"})
            => LET pausing == vaultResult'.op = "pause_vault"
                   expected ==
                       IF vaultResult'.caller # vault.authority THEN "Unauthorized"
                       ELSE IF pausing /\ vault.paused THEN "AlreadyPaused"
                       ELSE IF ~pausing /\ ~vault.paused THEN "NotPaused"
                       ELSE "Ok"
               IN  /\ vaultResult'.err = expected
                   /\ vault' = IF expected = "Ok" THEN [vault EXCEPT !.paused = pausing]
                               ELSE vault
       /\ config'.protocol_paused # config.protocol_paused
            => /\ finResult'.op \in {"pause_protocol", "unpause_protocol"}
               /\ finResult'.caller = config.admin_authority
       /\ vault'.paused # vault.paused
            => /\ vaultResult'.op \in {"pause_vault", "unpause_vault"}
               /\ vaultResult'.caller = vault.authority]_vars

\* Both breakers are engaged, each by the key its record was handed to: the
\* protocol's by bob after update_admin_authority, the pool's by alice after
\* migrate_vault_authority.
C35_Witness ==
    /\ finResult.op = "pause_protocol"
    /\ finResult.err = "Ok"
    /\ finResult.caller = "bob"
    /\ config.protocol_paused
    /\ vaultResult.op = "pause_vault"
    /\ vaultResult.err = "Ok"
    /\ vaultResult.caller = "alice"
    /\ vault.paused

\* C36: the LTV ceiling holds from origination on: every Active position,
\* as initialize_financing created it or update_ltv left it, has
\* LTV = floor(deferred_payment_amount * 10000 / collateral_usd_value) at
\* most its max_ltv.
C36_LtvCeiling ==
    \A index \in Indices :
        (positions[index] # NoPosition /\ positions[index].position_status = "Active")
            => /\ PositionLtv(positions[index]).err = "Ok"
               /\ PositionLtv(positions[index]).v <= positions[index].max_ltv

\* C37: a position that is healthy by its own parameters is never
\* liquidated: no liquidate and no force_liquidate_protocol call succeeds on
\* a position whose LTV is at most its own max_ltv.
C37_HealthyNeverLiquidated ==
    [][(/\ finResult.op = "none"
        /\ finResult'.op \in {"liquidate", "force_liquidate_protocol"}
        /\ finResult'.err = "Ok")
       => finResult'.ltv > positions[finResult'.index].max_ltv]_vars

\* C38: a position is terminated at most once.  close_at_maturity,
\* close_early and force_liquidate_protocol succeed only on an existing
\* Active position; a successful one destroys the record, so that no later
\* one can succeed on it, takes at most the position's collateral out of
\* custody and lowers open_positions by at most one; and at no instant are
\* close_at_maturity and close_early both accepted for the same position.
C38_TerminatedOnce ==
    [][/\ (/\ finResult.op = "none"
           /\ finResult'.op \in {"close_at_maturity", "close_early",
                                 "force_liquidate_protocol"}
           /\ finResult'.err = "Ok")
          => LET index == finResult'.index
                 state == positions[index]
             IN  /\ state # NoPosition
                 /\ state.position_status = "Active"
                 /\ positions'[index] = NoPosition
                 /\ \A other \in Indices \ {index} : positions'[other] = positions[other]
                 /\ finResult'.closed.position_status \in {"Closed", "Liquidated"}
                 /\ custody' <= custody
                 /\ custody' >= custody - state.collateral_amount
                 /\ counter'.open_positions <= counter.open_positions
                 /\ counter'.open_positions >= counter.open_positions - 1
       /\ \A index \in Indices :
            positions[index] # NoPosition
              => ~(/\ close_at_maturity_h(config, positions[index], counter, custody,
                                          Owner, now, TRUE).err = "Ok"
                   /\ close_early_h(config, positions[index], counter, custody,
                                    Owner, now, TRUE).err = "Ok")]_vars

\* The loser of a race: the owner's only position has been terminated, and
\* the close_at_maturity submitted against it afterwards finds no record.
C38_Witness ==
    /\ finResult.op = "close_at_maturity"
    /\ finResult.caller = Owner
    /\ finResult.err = "AccountNotInitialized"
    /\ counter.total_positions = 1
    /\ counter.open_positions = 0
    /\ custody = 0

\* the collateral_amount of the Active positions at the indices in S, summed
RECURSIVE OpenCollateral(_)
OpenCollateral(S) ==
    IF S = {} THEN 0
    ELSE LET index == CHOOSE i \in S : TRUE
             state == positions[index]
         IN  (IF state # NoPosition /\ state.position_status = "Active"
              THEN state.collateral_amount ELSE 0)
             + OpenCollateral(S \ {index})

\* C39: custody covers every open position: after any sequence of
\* initialize_financing, close_at_maturity, close_early, liquidate and
\* force_liquidate_protocol calls over the positions that share the
\* collateral custody account, the custody balance is at least the sum of
\* collateral_amount over the Active positions.
C39_CustodyCoversPositions ==
    custody >= OpenCollateral(Indices)

\* One position of 10,000 units is open next to one that was just
\* force-liquidated: custody holds the open position's collateral and the
\* 7,910 units sold for the liquidated one.
C39_Witness ==
    /\ finResult.op = "force_liquidate_protocol"
    /\ finResult.err = "Ok"
    /\ counter.open_positions = 1
    /\ OpenCollateral(Indices) = 10000
    /\ custody = 17910

\* C40: a depositor always receives shares: every successful deposit_usdc
\* with amount > 0 raises total_shares, and the supply of the share token,
\* by at least 1, also when the balance exceeds total_shares.
C40_DepositMintsShares ==
    [][(/\ vaultResult'.op = "deposit_usdc"
        /\ vaultResult'.err = "Ok"
        /\ vaultResult'.amount > 0)
       => /\ vault'.total_shares >= vault.total_shares + 1
          /\ lpSupply' >= lpSupply + 1]_vars

====
